---- MODULE Spec2Model ----
(***************************************************************************)
(* Model of the retirement-benefit register validator and estimator.       *)
(*                                                                         *)
(*   src/validator.py                  rule validator of the Streamlit app *)
(*   src/backend/services/validator.py rule validator of the backend       *)
(*   src/validatorcalculate.py         benefit estimator                   *)
(*                                                                         *)
(* Python strings are sequences of one-character strings.  A spreadsheet   *)
(* cell is a tagged record: None, NaN, a number or a string.  Fractions    *)
(* are kept exact as [num, den]; multipliers are counted in hundredths.    *)
(***************************************************************************)
EXTENDS Integers, Sequences, FiniteSets, TLC

VARIABLES
    df,                  \* estimator: rows of the Active register
    base_date,           \* estimator: the valuation date
    calculation_method,  \* estimator: day-count method
    progressive_multipliers, \* estimator: threshold table, or NoTable
    result_rows,         \* estimator: output of validate_calculation
    probe,               \* estimator: last direct call of _get_progressive_multiplier
    all_data,            \* validators: the sheets of the batch, in order
    structured_results,  \* app validator: output of validate
    phase1_results,      \* service validator: output of _validate_phase1_rules
    calc_summary,        \* estimator: output of get_summary
    history,             \* outputs of the earlier runs on the same registers
    call,                \* field normalizers: the function called and its argument
    returned,            \* field normalizers: what the successive calls returned
    session_state,       \* app: st.session_state
    uploaded_file        \* app: the file in the uploader, or NoFile

vars == <<df, base_date, calculation_method, progressive_multipliers,
          result_rows, probe, all_data, structured_results, phase1_results,
          calc_summary, history, call, returned, session_state,
          uploaded_file>>

(***************************************************************************)
(* Cells                                                                   *)
(***************************************************************************)
None == [k |-> "none", n |-> 0, s |-> <<>>]

NaN == [k |-> "nan", n |-> 0, s |-> <<>>]

\* a float cell; what n counts depends on the column (see ToNumeric)
Num(x) == [k |-> "num", n |-> x, s |-> <<>>]

\* an int cell
IntCell(x) == [k |-> "int", n |-> x, s |-> <<>>]

Str(cs) == [k |-> "str", n |-> 0, s |-> cs]

\* pd.isna(v) or v is None
IsNa(v) == v.k \in {"none", "nan"}

DigitChars == <<"0", "1", "2", "3", "4", "5", "6", "7", "8", "9">>

IsDigit(c) == \E i \in 1..10 : DigitChars[i] = c

DigitVal(c) == (CHOOSE i \in 1..10 : DigitChars[i] = c) - 1

\* str.isdigit()
IsDigits(cs) == Len(cs) > 0 /\ \A i \in 1..Len(cs) : IsDigit(cs[i])

RECURSIVE IntOf(_)
\* int(s) of a string of digits
IntOf(cs) ==
    IF cs = <<>> THEN 0
    ELSE 10 * IntOf(SubSeq(cs, 1, Len(cs) - 1)) + DigitVal(cs[Len(cs)])

RECURSIVE ZeroPad(_, _)
\* the decimal digits of n, zero-padded on the left to width w
ZeroPad(n, w) ==
    IF w = 0 THEN <<>>
    ELSE Append(ZeroPad(n \div 10, w - 1), DigitChars[(n % 10) + 1])

(***************************************************************************)
(* Calendar: datetime and dateutil.relativedelta as the estimator uses     *)
(* them                                                                    *)
(***************************************************************************)
Date(y, m, d) == [y |-> y, m |-> m, d |-> d]

IsLeap(y) == (y % 4 = 0) /\ ((y % 100 # 0) \/ (y % 400 = 0))

DaysInMonth(y, m) ==
    IF m = 2 THEN (IF IsLeap(y) THEN 29 ELSE 28)
    ELSE IF m \in {4, 6, 9, 11} THEN 30 ELSE 31

ValidDate(y, m, d) ==
    /\ y \in 1..9999
    /\ m \in 1..12
    /\ d \in 1..DaysInMonth(y, m)

RECURSIVE DaysBeforeMonth(_, _)
DaysBeforeMonth(y, m) ==
    IF m = 1 THEN 0 ELSE DaysBeforeMonth(y, m - 1) + DaysInMonth(y, m - 1)

\* datetime.toordinal(): the day number, 0001-01-01 being day 1
Ordinal(dt) ==
    LET p == dt.y - 1
    IN  p * 365 + (p \div 4) - (p \div 100) + (p \div 400)
          + DaysBeforeMonth(dt.y, dt.m) + dt.d

\* (a - b).days for two midnights
DaysBetween(a, b) == Ordinal(a) - Ordinal(b)

DateLE(a, b) == Ordinal(a) <= Ordinal(b)

DateLT(a, b) == Ordinal(a) < Ordinal(b)

\* dt + relativedelta(months=k): the day is clipped to the target month's end
AddMonths(dt, k) ==
    LET t == (dt.y * 12 + (dt.m - 1)) + k
        y == t \div 12
        m == (t % 12) + 1
        d == IF dt.d > DaysInMonth(y, m) THEN DaysInMonth(y, m) ELSE dt.d
    IN  Date(y, m, d)

RECURSIVE RelMonths(_, _, _)
\* relativedelta(dt1, dt2) for dt1 >= dt2: the month count is stepped down
\* while dt2 + months lies after dt1
RelMonths(dt1, dt2, months) ==
    IF DateLT(dt1, AddMonths(dt2, months))
    THEN RelMonths(dt1, dt2, months - 1)
    ELSE months

\* relativedelta(dt1, dt2) as [years, months, days], for dt1 >= dt2
RelativeDelta(dt1, dt2) ==
    LET months == RelMonths(dt1, dt2,
                            (dt1.y - dt2.y) * 12 + (dt1.m - dt2.m))
        dtm == AddMonths(dt2, months)
    IN  [years |-> months \div 12,
         months |-> months % 12,
         days |-> DaysBetween(dt1, dtm)]

(***************************************************************************)
(* Floats, kept exact: [k, num, den] with den > 0, or NaN                  *)
(***************************************************************************)
F(n, d) == [k |-> "num", num |-> n, den |-> d]

FNaN == [k |-> "nan", num |-> 0, den |-> 1]

FIsNaN(x) == x.k = "nan"

FZero == F(0, 1)

\* x >= y, x == y, x > y on floats: every comparison with NaN is false
FGE(x, y) == ~FIsNaN(x) /\ ~FIsNaN(y) /\ x.num * y.den >= y.num * x.den

FEq(x, y) == ~FIsNaN(x) /\ ~FIsNaN(y) /\ x.num * y.den = y.num * x.den

FGT(x, y) == ~FIsNaN(x) /\ ~FIsNaN(y) /\ x.num * y.den > y.num * x.den

RECURSIVE Gcd(_, _)
Gcd(a, b) == IF b = 0 THEN a ELSE Gcd(b, a % b)

Abs(n) == IF n < 0 THEN -n ELSE n

\* the same fraction in lowest terms
FNorm(x) ==
    IF FIsNaN(x) \/ x.num = 0 THEN (IF FIsNaN(x) THEN FNaN ELSE FZero)
    ELSE LET g == Gcd(Abs(x.num), x.den)
         IN  F(x.num \div g, x.den \div g)

FSub(x, y) ==
    IF FIsNaN(x) \/ FIsNaN(y) THEN FNaN
    ELSE FNorm(F(x.num * y.den - y.num * x.den, x.den * y.den))

FMul(x, y) ==
    IF FIsNaN(x) \/ FIsNaN(y) THEN FNaN
    ELSE FNorm(F(x.num * y.num, x.den * y.den))

FDiv(x, y) ==
    IF FIsNaN(x) \/ FIsNaN(y) THEN FNaN
    ELSE FNorm(F(x.num * y.den * (IF y.num < 0 THEN -1 ELSE 1),
                 x.den * Abs(y.num)))

FAbs(x) == IF FIsNaN(x) THEN FNaN ELSE F(Abs(x.num), x.den)

\* no clamp at zero
FMax0_NoClamp(x) == x

\* Python's max(0.0, x): 0.0 is kept unless x > 0.0, so a NaN gives 0.0
FMax0(x) == IF FGT(x, FZero) THEN x ELSE FZero

\* round(x, digits) as an integer count of 10^-digits, scale = 10^digits
\* (halves are rounded away from zero; none arises with den 12 or 365)
RoundTo(x, scale) ==
    LET a == Abs(x.num) * scale
        q == (2 * a + x.den) \div (2 * x.den)
    IN  IF x.num < 0 THEN -q ELSE q

\* str.strip() for the blank character
RECURSIVE LStrip(_)
LStrip(cs) == IF cs # <<>> /\ Head(cs) = " " THEN LStrip(Tail(cs)) ELSE cs

RECURSIVE RStrip(_)
RStrip(cs) ==
    IF cs # <<>> /\ cs[Len(cs)] = " "
    THEN RStrip(SubSeq(cs, 1, Len(cs) - 1))
    ELSE cs

Strip(cs) == LStrip(RStrip(cs))

\* pd.to_numeric(v, errors='coerce') of one cell; a numeric cell counts
\* v.n units of 1/unit, a string of digits is a whole number
ToNumeric(v, unit) ==
    CASE v.k = "num" -> F(v.n, unit)
      [] v.k = "int" -> F(v.n, 1)
      [] v.k = "str" /\ IsDigits(Strip(v.s)) -> F(IntOf(Strip(v.s)), 1)
      [] OTHER -> FNaN

\* Python's "x or 0": only a zero is falsy, NaN is kept
OrZero(x) == IF ~FIsNaN(x) /\ x.num = 0 THEN FZero ELSE x

RECURSIVE Digits(_)
\* str(n) of a non-negative int
Digits(n) ==
    IF n < 10 THEN <<DigitChars[n + 1]>>
    ELSE Append(Digits(n \div 10), DigitChars[(n % 10) + 1])

\* str(v) of a cell holding a whole number or a string
PyStr(v) ==
    CASE v.k = "str" -> v.s
      [] v.k = "int" -> IF v.n < 0 THEN <<"-">> \o Digits(-v.n) ELSE Digits(v.n)
      [] v.k = "num" -> (IF v.n < 0 THEN <<"-">> \o Digits(-v.n) ELSE Digits(v.n))
                        \o <<".", "0">>
      [] v.k = "none" -> <<"N", "o", "n", "e">>
      [] OTHER -> <<"n", "a", "n">>

RECURSIVE ReplaceDotZero(_)
\* s.replace(".0", "")
ReplaceDotZero(cs) ==
    IF Len(cs) < 2 THEN cs
    ELSE IF cs[1] = "." /\ cs[2] = "0"
         THEN ReplaceDotZero(SubSeq(cs, 3, Len(cs)))
         ELSE <<cs[1]>> \o ReplaceDotZero(Tail(cs))

(***************************************************************************)
(* Date parsing                                                            *)
(***************************************************************************)
\* the result of a parse that failed (None)
NoDate == [y |-> 0, m |-> 0, d |-> 0]

\* datetime.strptime(s, "%Y%m%d") of an 8-character string; NoDate stands
\* for the ValueError the callers catch
Strptime8(cs) ==
    IF ~IsDigits(cs) THEN NoDate
    ELSE LET y == IntOf(SubSeq(cs, 1, 4))
             m == IntOf(SubSeq(cs, 5, 6))
             d == IntOf(SubSeq(cs, 7, 8))
         IN  IF ValidDate(y, m, d) THEN Date(y, m, d) ELSE NoDate

\* pd.to_datetime(v) of one cell: an ISO "YYYY-MM-DD" string is read as that
\* date, a number as nanoseconds after 1970-01-01, other text is refused
ToDatetime(v) ==
    CASE v.k \in {"num", "int"} -> Date(1970, 1, 1)
      [] v.k = "str" /\ Len(v.s) = 10 /\ v.s[5] = "-" /\ v.s[8] = "-" ->
           Strptime8(SubSeq(v.s, 1, 4) \o SubSeq(v.s, 6, 7) \o SubSeq(v.s, 9, 10))
      [] OTHER -> NoDate

\* EstimateValidator._parse_date
EstParseDate(val) ==
    IF IsNa(val) THEN NoDate
    ELSE LET s_val == ReplaceDotZero(Strip(PyStr(val)))
         IN  IF Len(s_val) = 8 THEN Strptime8(s_val) ELSE ToDatetime(val)

\* pd.to_datetime of a text of six digits: the ISO reader refuses YYYYMM and
\* the text goes to the dateutil reader, which takes it as three two-digit
\* numbers: year-month-day when the first exceeds 31, day-month-year when it
\* exceeds 12, month-day-year otherwise; the century of the two-digit year
\* is the one within fifty years of the day the program runs
SixDigitReadings(cs) ==
    LET a == IntOf(SubSeq(cs, 1, 2))
        b == IntOf(SubSeq(cs, 3, 4))
        c == IntOf(SubSeq(cs, 5, 6))
        ymd == IF a > 31 THEN <<a, b, c>>
               ELSE IF a > 12 THEN <<c, b, a>>
               ELSE <<c, a, b>>
    IN  { IF ValidDate(century + ymd[1], ymd[2], ymd[3])
          THEN Date(century + ymd[1], ymd[2], ymd[3]) ELSE NoDate :
            century \in {1900, 2000} }

\* what EstimateValidator._parse_date can return: _parse_date has no branch
\* for six digits, they reach pd.to_datetime
EstParseDateOutcomes(val) ==
    IF val.k = "str" /\ Len(Strip(val.s)) = 6 /\ IsDigits(Strip(val.s))
    THEN SixDigitReadings(Strip(val.s))
    ELSE {EstParseDate(val)}

(***************************************************************************)
(* Benefit estimator: src/validatorcalculate.py                            *)
(*                                                                         *)
(* calculation_method: "ilhal" is '일할' (actual days), "wolsang" is '월상' *)
(* (months, rounded up), "wolsa" is '월사' (months, rounded down).          *)
(* A threshold-table row is [min_years, multiplier]: '근속연수_이상' in     *)
(* whole years and '지급배수' in hundredths.  A multiplier is a float in   *)
(* hundredths too: F(120, 100) is 1.2.                                     *)
(***************************************************************************)
\* progressive_multipliers=None
NoTable == [present |-> FALSE, rows |-> <<>>]

Table(rows) == [present |-> TRUE, rows |-> rows]

\* ServiceYears without the inclusive day of the actual method
ServiceYears_Exclusive(start_date, end_date, method) ==
    IF start_date # NoDate /\ end_date # NoDate /\ DateLE(start_date, end_date)
    THEN CASE method \in {"wolsang", "wolsa"} ->
                LET delta == RelativeDelta(end_date, start_date)
                IN  F(delta.years * 12 + delta.months
                        + (IF method = "wolsang" /\ delta.days > 0 THEN 1 ELSE 0),
                      12)
           [] OTHER -> F(DaysBetween(end_date, start_date), 365)
    ELSE FZero

\* ServiceYears with an unrecognised method counted in whole months
ServiceYears_UnknownAsMonths(start_date, end_date, method) ==
    IF start_date # NoDate /\ end_date # NoDate /\ DateLE(start_date, end_date)
    THEN CASE method = "ilhal" ->
                F(DaysBetween(end_date, start_date) + 1, 365)
           [] OTHER ->
                LET delta == RelativeDelta(end_date, start_date)
                IN  F(delta.years * 12 + delta.months
                        + (IF method = "wolsang" /\ delta.days > 0 THEN 1 ELSE 0),
                      12)
    ELSE FZero

\* ServiceYears with every started month rounded up, a full one too
ServiceYears_AlwaysUp(start_date, end_date, method) ==
    IF start_date # NoDate /\ end_date # NoDate /\ DateLE(start_date, end_date)
    THEN CASE method \in {"wolsang", "wolsa"} ->
                LET delta == RelativeDelta(end_date, start_date)
                IN  F(delta.years * 12 + delta.months
                        + (IF method = "wolsang" /\ delta.days >= 0 THEN 1 ELSE 0),
                      12)
           [] OTHER -> F(DaysBetween(end_date, start_date) + 1, 365)
    ELSE FZero

\* ServiceYears that leaves a start on the base date out of service
ServiceYears_StrictlyBefore(start_date, end_date, method) ==
    IF start_date # NoDate /\ end_date # NoDate /\ DateLT(start_date, end_date)
    THEN CASE method \in {"wolsang", "wolsa"} ->
                LET delta == RelativeDelta(end_date, start_date)
                IN  F(delta.years * 12 + delta.months
                        + (IF method = "wolsang" /\ delta.days > 0 THEN 1 ELSE 0),
                      12)
           [] OTHER -> F(DaysBetween(end_date, start_date) + 1, 365)
    ELSE FZero

\* lines 72-86: service_years of one record
ServiceYears(start_date, end_date, method) ==
    IF start_date # NoDate /\ end_date # NoDate /\ DateLE(start_date, end_date)
    THEN CASE method = "ilhal" ->
                F(DaysBetween(end_date, start_date) + 1, 365)
           [] method = "wolsang" ->
                LET delta == RelativeDelta(end_date, start_date)
                IN  F(delta.years * 12 + delta.months
                        + (IF delta.days > 0 THEN 1 ELSE 0), 12)
           [] method = "wolsa" ->
                LET delta == RelativeDelta(end_date, start_date)
                IN  F(delta.years * 12 + delta.months, 12)
           [] OTHER ->
                F(DaysBetween(end_date, start_date) + 1, 365)
    ELSE FZero

\* sort_values(by="근속연수_이상", ascending=False): the orders of the rows
\* that descend by threshold; rows of equal threshold come in either order
SortedTables(rows) ==
    { s \in [1..Len(rows) -> 1..Len(rows)] :
        /\ \A i, j \in 1..Len(rows) : i # j => s[i] # s[j]
        /\ \A i \in 1..(Len(rows) - 1) :
               rows[s[i]].min_years >= rows[s[i + 1]].min_years }

RECURSIVE FirstQualifying(_, _, _, _)
\* the loop of _get_progressive_multiplier over the sorted rows
FirstQualifying(rows, order, i, service_years) ==
    IF i > Len(rows) THEN F(100, 100)
    ELSE IF FGE(service_years, F(rows[order[i]].min_years, 1))
         THEN F(rows[order[i]].multiplier, 100)
         ELSE FirstQualifying(rows, order, i + 1, service_years)

\* _get_progressive_multiplier without its sort: the rows are tried as given
GetProgressiveMultiplier_Unsorted(table, order, service_years) ==
    IF ~table.present \/ table.rows = <<>> THEN F(100, 100)
    ELSE FirstQualifying(table.rows, [i \in 1..Len(table.rows) |-> i], 1,
                         service_years)

\* EstimateValidator._get_progressive_multiplier, the sort having produced
\* the row order `order`
GetProgressiveMultiplier(table, order, service_years) ==
    IF ~table.present \/ table.rows = <<>> THEN F(100, 100)
    ELSE FirstQualifying(table.rows, order, 1, service_years)

\* lines 90-94: the record's '적용배수', normalized
ExcelMultiplier(raw) ==
    LET excel_multiplier == ToNumeric(raw, 100)
    IN  IF FIsNaN(excel_multiplier) \/ excel_multiplier.num = 0
        THEN F(100, 100)
        ELSE IF FGE(excel_multiplier, F(10, 1))
             THEN FDiv(excel_multiplier, F(100, 1))
             ELSE excel_multiplier

\* lines 96-105: the multiplier applied to the record
Multiplier(raw, table, order, service_years) ==
    IF table.present
    THEN IF ~FEq(ExcelMultiplier(raw), F(100, 100))
         THEN ExcelMultiplier(raw)
         ELSE GetProgressiveMultiplier(table, order, service_years)
    ELSE ExcelMultiplier(raw)

\* lines 108-117: leave_deduction_years; '휴직기간/연' counts hundredths of
\* a year, '휴직기간등차감' days
LeaveDeductionYears(row) ==
    LET l_years == ToNumeric(row.col_leave_years, 100)
        l_days == ToNumeric(row.col_leave_days, 1)
    IN  IF FGT(l_years, FZero) THEN l_years
        ELSE IF FGT(l_days, FZero) THEN FDiv(l_days, F(365, 1))
        ELSE FZero

\* lines 63-138: the reconciliation row of one record
ResultRow(row, end_date, method, table, order) ==
    LET base_salary == OrZero(ToNumeric(row.col_salary, 1))
        start_date_raw == IF ~IsNa(row.col_interim_date)
                          THEN row.col_interim_date
                          ELSE row.col_join_date
        start_date == EstParseDate(start_date_raw)
        service_years == ServiceYears(start_date, end_date, method)
        multiplier == Multiplier(row.col_multiplier, table, order,
                                 service_years)
        leave_deduction_years == LeaveDeductionYears(row)
        final_rate == FMax0(FSub(service_years, leave_deduction_years))
        system_estimate == FMul(FMul(base_salary, final_rate), multiplier)
        original_estimate == OrZero(ToNumeric(row.col_original_estimate, 1))
        error_rate ==
            IF FIsNaN(original_estimate) \/ original_estimate.num # 0
            THEN FMul(FDiv(FAbs(FSub(system_estimate, original_estimate)),
                           FAbs(original_estimate)), F(100, 1))
            ELSE FZero
    IN  [emp_id |-> row.col_emp_id,
         start_date |-> start_date,
         service_years |-> service_years,
         service_years_4 |-> RoundTo(service_years, 10000),
         system_estimate |-> system_estimate,
         original_estimate |-> original_estimate,
         error_rate |-> error_rate,
         error_rate_2 |-> IF FIsNaN(error_rate) THEN FNaN
                          ELSE F(RoundTo(error_rate, 100), 100),
         base_salary |-> base_salary,
         multiplier |-> multiplier,
         leave_deduction_years |-> leave_deduction_years,
         final_rate |-> final_rate]

\* get_summary has not run
NoSummary ==
    [done |-> FALSE, raised |-> FALSE, total_count |-> 0, error_count |-> 0,
     match_rate |-> FZero]

\* lines 142-155: get_summary of the frame validate_calculation returned.
\* pd.DataFrame([]) has no columns, so result_df['오차율'] raises KeyError
\* for a register without records.
GetSummaryOf(rows) ==
    IF rows = <<>>
    THEN [NoSummary EXCEPT !.done = TRUE, !.raised = TRUE]
    ELSE LET total_count == Len(rows)
             error_count ==
                 Cardinality({i \in 1..Len(rows) :
                                FGE(rows[i].error_rate_2, F(5, 1))})
         IN  [done |-> TRUE, raised |-> FALSE,
              total_count |-> total_count,
              error_count |-> error_count,
              match_rate |->
                  IF total_count > 0
                  THEN FNorm(F((total_count - error_count) * 100, total_count))
                  ELSE FZero]

(***************************************************************************)
(* Estimator inputs                                                        *)
(***************************************************************************)
\* rows of a register given to the estimator
MaxRows == 2

\* start dates reach this many years back from the valuation year
YearSpan == 2

\* service lengths, in years, that the multiplier inputs reach
MaxTenure == 11

\* rows of a threshold table
MaxTableRows == 3

Methods == {"ilhal", "wolsang", "wolsa", "unknown"}

BaseDates == {Date(2025, 1, 1), Date(2025, 2, 10), Date(2024, 2, 29)}

\* "YYYYMMDD", as SheetProcessor._refine_data writes a date column
Fmt8(dt) == Str(ZeroPad(dt.y, 4) \o ZeroPad(dt.m, 2) \o ZeroPad(dt.d, 2))

\* "YYYY-MM-DD"
FmtIso(dt) ==
    Str(ZeroPad(dt.y, 4) \o <<"-">> \o ZeroPad(dt.m, 2) \o <<"-">>
          \o ZeroPad(dt.d, 2))

\* the float YYYYMMDD.0 of a numeric date column that has a blank cell
FmtNum(dt) == Num(dt.y * 10000 + dt.m * 100 + dt.d)

StartDates(base) ==
    { dt \in [y : (base.y - YearSpan)..(base.y + 1), m : 1..12,
              d : {1, 15, 28, 29, 30, 31}] : ValidDate(dt.y, dt.m, dt.d) }

Text == Str(<<"a", "b", "c">>)

EstRow(id, join, interim, salary, mult) ==
    [col_emp_id |-> id, col_join_date |-> join, col_interim_date |-> interim,
     col_salary |-> salary, col_multiplier |-> mult,
     col_leave_days |-> None, col_leave_years |-> None,
     col_original_estimate |-> None]

Id1 == Str(<<"1", "0", "0", "1">>)

\* one record, its start date ranging over the calendar, given as the hire
\* date or as the interim settlement date
DateRows(base) ==
    { EstRow(Id1, Fmt8(dt), None, IntCell(30), None) : dt \in StartDates(base) }
    \cup
    { EstRow(Id1, Fmt8(Date(base.y - YearSpan, 1, 1)), Fmt8(dt), IntCell(30),
             None) : dt \in StartDates(base) }

\* the cell encodings of a date, and cells that hold no date
FormatRows(base) ==
    LET dt == Date(base.y - 5, 1, 1)
    IN  { EstRow(Id1, c, i, IntCell(30), None) :
            c \in {Fmt8(dt), FmtIso(dt), FmtNum(dt), None, NaN, Text,
                   Fmt8(Date(base.y - 5, 1, 15)),
                   Str(<<"2", "0", "2", "0", "0", "2", "3", "0">>)},
            i \in {None, NaN, Text, Fmt8(Date(base.y - 1, 3, 31))} }

MultiplierCells ==
    {None, NaN, Text, Str(<<"1", "2", "0">>), Num(0), Num(100), Num(120),
     Num(999), Num(1000), Num(10000), Num(12000), Num(-120), Num(-15000)}

\* one record of k years (less j months) of service, its '적용배수' ranging
TenureRows(base, cells) ==
    { EstRow(Id1, Fmt8(AddMonths(base, 0 - (12 * k - j))), None, IntCell(30), c) :
        k \in {0, 4, 5, 7, 10, MaxTenure}, j \in {0, 1}, c \in cells }

TableRows ==
    { [min_years |-> 0, multiplier |-> 100], [min_years |-> 5, multiplier |-> 120],
      [min_years |-> 10, multiplier |-> 150], [min_years |-> 5, multiplier |-> 130] }

Tables ==
    {NoTable} \cup
      { Table(s) : s \in UNION { [1..n -> TableRows] : n \in 0..MaxTableRows } }

DefaultTable ==
    Table(<< [min_years |-> 0, multiplier |-> 100],
             [min_years |-> 5, multiplier |-> 120],
             [min_years |-> 10, multiplier |-> 150] >>)

\* registers of several records
MenuRows(base) ==
    { EstRow(Id1, Fmt8(Date(base.y - 5, 1, 1)), None, IntCell(30), None),
      EstRow(None, None, None, None, None),
      EstRow(Str(<<"2">>), Fmt8(Date(base.y - 12, 6, 15)),
             Fmt8(Date(base.y - 2, 6, 15)), Text, Num(12000)) }

\* validate_calculation has not run
NotRun == [done |-> FALSE, rows |-> <<>>]

\* no direct call of _get_progressive_multiplier is asked for
NoProbe == [pending |-> FALSE, called |-> FALSE, service_years |-> FZero,
            multiplier |-> FZero]

\* service years handed to _get_progressive_multiplier directly
ProbeYears == {F(4999, 1000), F(5, 1), F(7, 1), F(10, 1), F(0, 1)}

\* validate has not been called
NotValidated == [done |-> FALSE, raised |-> FALSE, sheets |-> <<>>]

\* the service's validate has not been called
NoPhase1 ==
    [done |-> FALSE, aborted |-> FALSE, sheet_results |-> <<>>,
     errors |-> <<>>, warnings |-> <<>>,
     total_records |-> 0, valid_records |-> 0, invalid_records |-> 0]

\* no earlier run
NoHistory == <<>>

\* no field normalizer is called
NoCall == [fn |-> "none", arg |-> <<>>]

\* st.session_state of a new session: no key is set.  A flag that is not
\* set reads False (session_state.get(flag, False)); a cached result is
\* <<>> when its key is not set and <<value>> when it is
NoSession ==
    [last_uploaded_file |-> <<>>,
     validation_done |-> FALSE, calc_done |-> FALSE, ai_analysis_done |-> FALSE,
     validation_results |-> <<>>, calc_results_df |-> <<>>,
     calc_summary |-> <<>>, ai_analysis_result |-> <<>>]

\* st.file_uploader returns None
NoFile == [name |-> "", data |-> <<>>]

\* the reported estimates of a record whose computed estimate is 150
EstimateCells ==
    {None, NaN, Text, IntCell(0), IntCell(150), IntCell(140), IntCell(100),
     IntCell(-150), Str(<<"1", "4", "0">>)}

\* '휴직기간/연', in hundredths of a year
LeaveYearCells == {None, Num(100), Num(1000), Num(-100), Text}

\* '휴직기간등차감', in days
LeaveDayCells == {None, IntCell(365), IntCell(3650), Text}

\* one record of five years of service, or without a start date, its salary,
\* reported estimate and leave deductions ranging
ReconRows(base) ==
    { [EstRow(Id1, j, None, s, None) EXCEPT
          !.col_original_estimate = e, !.col_leave_years = ly,
          !.col_leave_days = ld] :
        j \in {Fmt8(Date(base.y - 5, base.m, base.d)), None},
        s \in {IntCell(30), None, Text},
        e \in EstimateCells, ly \in LeaveYearCells, ld \in LeaveDayCells }

\* records of each deviation band, and records that cannot be compared
BandRows(base) ==
    { [EstRow(Id1, Fmt8(Date(base.y - 5, base.m, base.d)), None, IntCell(30), None)
          EXCEPT !.col_original_estimate = e] :
        e \in {IntCell(150), IntCell(140), IntCell(100), IntCell(0), None} }

EstInit ==
    /\ session_state = NoSession
    /\ uploaded_file = NoFile
    /\ result_rows = NotRun
    /\ calc_summary = NoSummary
    /\ history = NoHistory
    /\ call = NoCall
    /\ returned = <<>>
    /\ all_data = <<>>
    /\ structured_results = NotValidated
    /\ phase1_results = NoPhase1
    /\ \/ /\ base_date \in BaseDates
          /\ calculation_method \in Methods
          /\ progressive_multipliers = NoTable
          /\ df \in { <<r>> : r \in DateRows(base_date) \cup FormatRows(base_date) }
          /\ probe = NoProbe
       \/ /\ base_date = Date(2025, 1, 1)
          /\ calculation_method = "wolsa"
          /\ progressive_multipliers \in Tables
          /\ df \in { <<r>> : r \in TenureRows(base_date, {None, Num(10000), Num(120)}) }
          /\ probe = NoProbe
       \/ /\ base_date = Date(2025, 1, 1)
          /\ calculation_method \in {"ilhal", "wolsang"}
          /\ progressive_multipliers \in {NoTable, Table(<<>>), DefaultTable}
          /\ df \in { <<r>> : r \in TenureRows(base_date, MultiplierCells) }
          /\ probe = NoProbe
       \/ /\ base_date \in BaseDates
          /\ calculation_method = "wolsang"
          /\ progressive_multipliers \in {NoTable, DefaultTable}
          /\ df \in UNION { [1..n -> MenuRows(base_date)] : n \in 0..MaxRows }
          /\ probe = NoProbe
       \/ /\ base_date = Date(2025, 1, 1)
          /\ calculation_method \in {"ilhal", "wolsa"}
          /\ progressive_multipliers = NoTable
          /\ df \in { <<r>> : r \in ReconRows(base_date) }
                   \cup UNION { [1..n -> BandRows(base_date)] : n \in 0..MaxRows }
          /\ probe = NoProbe
       \/ /\ base_date = Date(2025, 1, 1)
          /\ calculation_method = "ilhal"
          /\ progressive_multipliers \in Tables
          /\ df = <<>>
          /\ probe \in { [pending |-> TRUE, called |-> FALSE, service_years |-> sy,
                          multiplier |-> FZero] : sy \in ProbeYears }

\* validate_calculation that passes over the records without employee ID
ValidateCalculation_SkipsNoId ==
    /\ ~result_rows.done
    /\ \E order \in SortedTables(progressive_multipliers.rows) :
         LET kept == SelectSeq(df, LAMBDA r : ~IsNa(r.col_emp_id))
         IN  result_rows' =
               [done |-> TRUE,
                rows |-> [i \in 1..Len(kept) |->
                            ResultRow(kept[i], base_date, calculation_method,
                                      progressive_multipliers, order)]]
    /\ UNCHANGED <<df, base_date, calculation_method, progressive_multipliers,
                   probe, all_data, structured_results, phase1_results,
                   calc_summary, history, call, returned, session_state,
                   uploaded_file>>

\* EstimateValidator.validate_calculation (lines 47-140)
ValidateCalculation ==
    /\ ~result_rows.done
    /\ \E order \in SortedTables(progressive_multipliers.rows) :
         result_rows' =
           [done |-> TRUE,
            rows |-> [i \in 1..Len(df) |->
                        ResultRow(df[i], base_date, calculation_method,
                                  progressive_multipliers, order)]]
    /\ UNCHANGED <<df, base_date, calculation_method, progressive_multipliers,
                   probe, all_data, structured_results, phase1_results,
                   calc_summary, history, call, returned, session_state,
                   uploaded_file>>

\* a direct call of EstimateValidator._get_progressive_multiplier (lines 16-27)
CallGetProgressiveMultiplier ==
    /\ probe.pending
    /\ \E order \in SortedTables(progressive_multipliers.rows) :
         probe' = [pending |-> FALSE, called |-> TRUE,
                   service_years |-> probe.service_years,
                   multiplier |->
                     GetProgressiveMultiplier(progressive_multipliers, order,
                                              probe.service_years)]
    /\ UNCHANGED <<df, base_date, calculation_method, progressive_multipliers,
                   result_rows, all_data, structured_results, phase1_results,
                   calc_summary, history, call, returned, session_state,
                   uploaded_file>>

\* EstimateValidator.get_summary (lines 142-155) of the rows returned
GetSummary ==
    /\ result_rows.done
    /\ ~calc_summary.done
    /\ calc_summary' = GetSummaryOf(result_rows.rows)
    /\ UNCHANGED <<df, base_date, calculation_method, progressive_multipliers,
                   result_rows, probe, all_data, structured_results,
                   phase1_results, history, call, returned, session_state,
                   uploaded_file>>

EstNext == ValidateCalculation \/ CallGetProgressiveMultiplier \/ GetSummary

SpecEstimator == EstInit /\ [][EstNext]_vars

(***************************************************************************)
(* Registers                                                               *)
(*                                                                         *)
(* A sheet is [name, cols, rows]: cols are the columns the sheet supplies, *)
(* a row maps every canonical field to a cell (None where the column is    *)
(* not supplied).  A sheet name is a sequence of words, each standing for  *)
(* the Korean word the source matches on:                                  *)
(*   jaejikja 재직자, myeongbu 명부, toejikja 퇴직자, mit 및,               *)
(*   jeonhwanja 전환자, chuga 추가, janggigeunsok 장기근속,                 *)
(*   gitajanggi 기타장기, junggan 중간정산, jeonchurip 전출입,              *)
(*   gichojaryo 기초자료, toejikgeupyeo 퇴직급여                            *)
(***************************************************************************)
\* keyword in name
Contains(name, keyword) ==
    \E i \in 1..(Len(name) - Len(keyword) + 1) :
        SubSeq(name, i, i + Len(keyword) - 1) = keyword

\* name.lower().replace(" ", "")
LowerNoSpace(name) ==
    LET kept == SelectSeq(name, LAMBDA w : w # " ")
    IN  [i \in 1..Len(kept) |-> IF kept[i] = "DC" THEN "dc" ELSE kept[i]]

Fields ==
    {"emp_id", "birth_date", "hire_date", "base_salary", "employee_type",
     "current_year_severance", "next_year_severance",
     "interim_settlement_amount", "interim_settlement_date",
     "min_salary_contract", "prev_min_salary_contract", "gender", "reason",
     "active_count", "retired_count", "estimate_sum"}

\* row.get(col) where col is the column found for `field`, or None
Get(sheet, row, field) == IF field \in sheet.cols THEN row[field] ELSE None

(***************************************************************************)
(* Rule validator of the app: src/validator.py                             *)
(*                                                                         *)
(* A finding is [category, emp_id, detail, n]; the categories are          *)
(*   dup_id 사원번호 중복, required 필수값 누락, negative 금액 오류(음수),   *)
(*   estimate_logic 추계액 논리 오류(임원/계약직), age 입사연령 이상,        *)
(*   date_order 날짜 선후 모순, date_check 날짜 확인 필요,                  *)
(*   interim_missing 중간정산액 누락, date_format 날짜 형식 오류,           *)
(*   low_salary 저임금 의심, cross_dup 명부 간 중복,                        *)
(*   cross_mismatch 명부 간 불일치, sum_mismatch 합계 불일치               *)
(***************************************************************************)
Finding(category, emp_id, detail, n) ==
    [category |-> category, emp_id |-> emp_id, detail |-> detail, n |-> n]

\* one finding if cond, none otherwise
When(cond, finding) == IF cond THEN <<finding>> ELSE <<>>

EndsWithDotZero(cs) ==
    Len(cs) >= 2 /\ cs[Len(cs) - 1] = "." /\ cs[Len(cs)] = "0"

\* DataValidator._normalize_employee_id
NormalizeEmployeeId(value) ==
    IF IsNa(value) THEN None
    ELSE LET s == Strip(PyStr(value))
         IN  IF EndsWithDotZero(s) THEN Str(SubSeq(s, 1, Len(s) - 2)) ELSE Str(s)

\* DataValidator._parse_date; NaT counts as no date: it fails every
\* comparison the validator makes
RootParseDate(date_val) ==
    IF IsNa(date_val) THEN NoDate
    ELSE LET s_date == ReplaceDotZero(Strip(PyStr(date_val)))
         IN  IF IsDigits(s_date) /\ Len(s_date) = 8 THEN Strptime8(s_date)
             ELSE IF IsDigits(s_date) /\ Len(s_date) = 6
             THEN LET yy == IntOf(SubSeq(s_date, 1, 2))
                      year == IF yy < 50 THEN yy + 2000 ELSE yy + 1900
                  IN  Strptime8(Digits(year) \o SubSeq(s_date, 3, 6))
             ELSE ToDatetime(Str(s_date))

\* DataValidator._check_date_validity: TRUE when it returns a message
RootCheckDateValidity(date_val) ==
    IF IsNa(date_val) THEN FALSE
    ELSE LET s_date == ReplaceDotZero(Strip(PyStr(date_val)))
             mmdd == SubSeq(s_date, Len(s_date) - 3, Len(s_date))
         IN  /\ Len(s_date) >= 6
             /\ IsDigits(SubSeq(mmdd, 1, 2))
             /\ IsDigits(SubSeq(mmdd, 3, 4))
             /\ (IntOf(SubSeq(mmdd, 1, 2)) > 12 \/ IntOf(SubSeq(mmdd, 3, 4)) > 31)

\* val is a cell the required-field check reports: NaN, None or blank
IsBlank(val) == IsNa(val) \/ (val.k = "str" /\ Strip(val.s) = <<>>)

\* isinstance(v, (int, float)); NaN is a float
IsNumber(v) == v.k \in {"num", "int", "nan"}

\* v is a number below `limit`
NumberBelow(v, limit) == v.k \in {"num", "int"} /\ v.n < limit

\* v == 0
IsZero(v) == v.k \in {"num", "int"} /\ v.n = 0

\* the characters of the text cells, in code-point order
Alphabet == <<" ", "-", ".", "0", "1", "2", "3", "4", "5", "6", "7", "8", "9",
              "N", "R", "a", "b", "c", "e", "n", "o", "w">>

CharRank(c) == CHOOSE i \in 1..Len(Alphabet) : Alphabet[i] = c

RECURSIVE SeqLess(_, _)
\* a < b for two strings
SeqLess(a, b) ==
    IF b = <<>> THEN FALSE
    ELSE IF a = <<>> THEN TRUE
    ELSE IF Head(a) # Head(b) THEN CharRank(Head(a)) < CharRank(Head(b))
    ELSE SeqLess(Tail(a), Tail(b))

\* line 148: float(job_type) if job_type is not None else 0, or 0 when the
\* conversion fails; a NaN compares false
JobTypeAbove2(job_type) ==
    CASE job_type.k \in {"num", "int"} -> job_type.n > 2
      [] job_type.k = "str" /\ IsDigits(Strip(job_type.s)) ->
           IntOf(Strip(job_type.s)) > 2
      [] OTHER -> FALSE

\* line 157: "not (curr_estimate < next_estimate)" and the message built
\* from it.  "raise" is the TypeError of comparing a string with a number,
\* or the ValueError of formatting a string with ",.0f".
CompareEstimates(curr, next) ==
    IF curr.k = "none" \/ next.k = "none" THEN "skip"
    ELSE IF curr.k = "str" /\ next.k = "str"
         THEN (IF SeqLess(curr.s, next.s) THEN "skip" ELSE "raise")
    ELSE IF curr.k = "str" \/ next.k = "str" THEN "raise"
    ELSE IF curr.k # "nan" /\ next.k # "nan" /\ curr.n < next.n THEN "skip"
    ELSE "finding"


\* pd.DataFrame(data): a column holding numbers and no text becomes a float
\* column as soon as one value is missing or a float (None becomes NaN, an
\* int a float); any other column keeps its objects
FloatColumn(rows, field) ==
    /\ \A i \in 1..Len(rows) : rows[i][field].k # "str"
    /\ \E i \in 1..Len(rows) : rows[i][field].k \in {"num", "int", "nan"}
    /\ \E i \in 1..Len(rows) : rows[i][field].k \in {"num", "none", "nan"}

DataFrame(rows) ==
    [i \in 1..Len(rows) |->
        [f \in Fields |->
            IF FloatColumn(rows, f)
            THEN (IF rows[i][f].k \in {"none", "nan"} THEN NaN ELSE Num(rows[i][f].n))
            ELSE rows[i][f]]]

\* a == b for two raw cells that are not missing
RawEq(a, b) ==
    IF a.k \in {"num", "int"} /\ b.k \in {"num", "int"} THEN a.n = b.n ELSE a = b

\* df[col].dropna(): the positions of the rows it keeps
DropNa(frame, field) == {i \in 1..Len(frame) : ~IsNa(frame[i][field])}

\* (employee_ids == dup_id).sum() for the raw value of row i
RawCount(frame, field, i) ==
    Cardinality({j \in DropNa(frame, field) : RawEq(frame[j][field], frame[i][field])})

\* lines 96-108: duplicates.unique() keeps the first row of every raw value
\* that occurs twice or more
RootDuplicateFindings(sheet, frame) ==
    IF "emp_id" \notin sheet.cols THEN <<>>
    ELSE LET first == {i \in DropNa(frame, "emp_id") :
                         /\ RawCount(frame, "emp_id", i) >= 2
                         /\ \A j \in DropNa(frame, "emp_id") :
                              RawEq(frame[j]["emp_id"], frame[i]["emp_id"]) => j >= i}
             pick(i) == Finding("dup_id", NormalizeEmployeeId(frame[i]["emp_id"]),
                                "in_sheet", RawCount(frame, "emp_id", i))
         IN  [k \in 1..Cardinality(first) |->
                pick(CHOOSE i \in first :
                        Cardinality({j \in first : j < i}) = k - 1)]

\* f"Row {idx+1}"
RowLabel(idx) == Str(<<"R", "o", "w", " ">> \o Digits(idx))

\* the emp_id a finding of row idx carries
RootEmpId(sheet, frame, idx) ==
    IF "emp_id" \in sheet.cols THEN NormalizeEmployeeId(frame[idx]["emp_id"])
    ELSE RowLabel(idx)

RECURSIVE Concat(_)
\* the findings of a sequence of steps, in order
Concat(seqs) == IF seqs = <<>> THEN <<>> ELSE Head(seqs) \o Concat(Tail(seqs))

\* the required-field loops: a field whose column was found and whose value
\* is NaN, None or blank
RootRequiredFindings(sheet, row, emp_id, required_fields) ==
    Concat([k \in 1..Len(required_fields) |->
        When(required_fields[k] \in sheet.cols /\ IsBlank(row[required_fields[k]]),
             Finding("required", emp_id, required_fields[k], 0))])

ActiveRequired == <<"emp_id", "birth_date", "hire_date", "base_salary", "employee_type">>

\* program constant of line 203
LowSalary == 1700000

\* lines 131-143
RootNegativeFindings(sheet, row, emp_id) ==
    LET amounts == <<"current_year_severance", "next_year_severance",
                     "interim_settlement_amount">>
    IN  Concat([k \in 1..3 |->
            When(NumberBelow(Get(sheet, row, amounts[k]), 0),
                 Finding("negative", emp_id, amounts[k], 0))])

\* x is NaN, None or 0
MissingOrZero(x) == IsNa(x) \/ IsZero(x)

\* lines 145-158, when no exception is raised
RootConditionalFindings(sheet, row, emp_id) ==
    LET curr_estimate == Get(sheet, row, "current_year_severance")
        next_estimate == Get(sheet, row, "next_year_severance")
    IN  IF ~JobTypeAbove2(Get(sheet, row, "employee_type")) THEN <<>>
        ELSE When(MissingOrZero(curr_estimate),
                  Finding("estimate_logic", emp_id, "current_year_severance", 0))
             \o When(MissingOrZero(next_estimate),
                  Finding("estimate_logic", emp_id, "next_year_severance", 0))
             \o When(CompareEstimates(curr_estimate, next_estimate) = "finding",
                  Finding("estimate_logic", emp_id, "not_increasing", 0))

\* lines 157-158 raise for this row
RootRowRaises(sheet, row) ==
    /\ JobTypeAbove2(Get(sheet, row, "employee_type"))
    /\ CompareEstimates(Get(sheet, row, "current_year_severance"),
                        Get(sheet, row, "next_year_severance")) = "raise"


\* a parse produced a date
HasDate(dt) == dt # NoDate

\* self._parse_date(row.get(col)) if col else None
RootDateOf(sheet, row, field) ==
    IF field \in sheet.cols THEN RootParseDate(row[field]) ELSE NoDate

\* lines 165-191
RootDateFindings(sheet, row, emp_id, base) ==
    LET birth_date == RootDateOf(sheet, row, "birth_date")
        join_date == RootDateOf(sheet, row, "hire_date")
        interim_date == RootDateOf(sheet, row, "interim_settlement_date")
        age_at_join == join_date.y - birth_date.y
    IN  When(HasDate(birth_date) /\ HasDate(join_date)
               /\ (age_at_join < 17 \/ age_at_join > 70),
             Finding("age", emp_id, "age_at_join", age_at_join))
        \o When(HasDate(birth_date) /\ HasDate(join_date)
                  /\ DateLT(join_date, birth_date),
             Finding("date_order", emp_id, "hire_before_birth", 0))
        \o When(HasDate(interim_date) /\ HasDate(join_date)
                  /\ DateLE(interim_date, join_date),
             Finding("date_check", emp_id, "interim_before_hire", 0))
        \o When(HasDate(join_date) /\ DateLE(base, join_date),
             Finding("date_order", emp_id, "base_before_hire", 0))
        \o When(HasDate(interim_date) /\ DateLE(base, interim_date),
             Finding("date_order", emp_id, "base_before_interim", 0))
        \o When(HasDate(interim_date) /\ interim_date.y = base.y
                  /\ MissingOrZero(Get(sheet, row, "interim_settlement_amount")),
             Finding("interim_missing", emp_id, "interim_settlement_amount", 0))

\* lines 193-204
RootFormatFindings(sheet, row, emp_id) ==
    LET date_fields == <<"birth_date", "hire_date", "interim_settlement_date">>
    IN  Concat([k \in 1..3 |->
            When(date_fields[k] \in sheet.cols
                   /\ RootCheckDateValidity(row[date_fields[k]]),
                 Finding("date_format", emp_id, date_fields[k], 0))])
        \o When(NumberBelow(Get(sheet, row, "base_salary"), LowSalary),
                Finding("low_salary", emp_id, "base_salary", 0))

\* DataValidator._validate_active_employees, when no row raises
RootValidateActiveEmployees(sheet, base) ==
    LET frame == DataFrame(sheet.rows)
    IN  RootDuplicateFindings(sheet, frame)
        \o Concat([idx \in 1..Len(frame) |->
             LET row == frame[idx]
                 emp_id == RootEmpId(sheet, frame, idx)
             IN  RootRequiredFindings(sheet, row, emp_id, ActiveRequired)
                 \o RootNegativeFindings(sheet, row, emp_id)
                 \o RootConditionalFindings(sheet, row, emp_id)
                 \o RootDateFindings(sheet, row, emp_id, base)
                 \o RootFormatFindings(sheet, row, emp_id)])

\* _validate_active_employees raises on some row
RootActiveRaises(sheet) ==
    LET frame == DataFrame(sheet.rows)
    IN  \E idx \in 1..Len(frame) : RootRowRaises(sheet, frame[idx])

\* DataValidator._validate_retired_employees
RootValidateRetiredEmployees(sheet) ==
    LET frame == DataFrame(sheet.rows)
    IN  Concat([idx \in 1..Len(frame) |->
            RootRequiredFindings(sheet, frame[idx], RootEmpId(sheet, frame, idx),
                                 <<"emp_id", "birth_date", "gender">>)])

\* int(float(reason)) of lines 275-276; 0 stands for a value that raises or
\* that is none of the coded reasons
ReasonNum(reason) ==
    CASE reason.k \in {"num", "int"} -> reason.n
      [] reason.k = "str" /\ IsDigits(Strip(reason.s)) -> IntOf(Strip(reason.s))
      [] reason.k = "str" /\ EndsWithDotZero(Strip(reason.s))
           /\ IsDigits(SubSeq(Strip(reason.s), 1, Len(Strip(reason.s)) - 2)) ->
           IntOf(SubSeq(Strip(reason.s), 1, Len(Strip(reason.s)) - 2))
      [] OTHER -> 0

\* lines 270-292 for one row
RootReasonFindings(sheet, row, active_ids, retired_ids) ==
    LET reason == Get(sheet, row, "reason")
        employee_id == IF "emp_id" \in sheet.cols
                       THEN NormalizeEmployeeId(row["emp_id"]) ELSE None
        reason_num == ReasonNum(reason)
    IN  IF reason.k = "none" \/ employee_id = None \/ employee_id = Str(<<>>)
        THEN <<>>
        ELSE When(reason_num = 1 /\ employee_id \notin active_ids,
                  Finding("cross_mismatch", employee_id, "reason_1", 0))
             \o When(reason_num = 2 /\ employee_id \in retired_ids,
                  Finding("cross_mismatch", employee_id, "reason_2", 0))
             \o When(reason_num = 5 /\ employee_id \notin active_ids,
                  Finding("cross_mismatch", employee_id, "reason_5", 0))

\* DataValidator._validate_additional_employees
RootValidateAdditionalEmployees(sheet, active_ids, retired_ids) ==
    LET frame == DataFrame(sheet.rows)
    IN  Concat([idx \in 1..Len(frame) |->
            RootRequiredFindings(sheet, frame[idx], RootEmpId(sheet, frame, idx),
                                 <<"emp_id", "birth_date", "gender", "reason">>)
            \o RootReasonFindings(sheet, frame[idx], active_ids, retired_ids)])


\* the sheet-name tests of validate and _validate_retirement_benefit_summary
RootIsActive(name) ==
    Contains(name, <<"jaejikja">>) /\ ~Contains(name, <<"gitajanggi">>)

RootIsRetired(name) == ~RootIsActive(name) /\ Contains(name, <<"toejikja">>)

RootIsAdditional(name) ==
    /\ ~RootIsActive(name) /\ ~RootIsRetired(name)
    /\ (Contains(name, <<"chuga">>) \/ Contains(name, <<"junggan">>))

RootIsSummary(name) ==
    /\ ~RootIsActive(name) /\ ~RootIsRetired(name) /\ ~RootIsAdditional(name)
    /\ Contains(name, <<"gichojaryo">>) /\ Contains(name, <<"toejikgeupyeo">>)

RECURSIVE SumNumeric(_, _, _)
\* pd.to_numeric(df[col], errors='coerce').sum() over rows i..Len(frame)
SumNumeric(frame, field, i) ==
    IF i > Len(frame) THEN 0
    ELSE LET x == ToNumeric(frame[i][field], 1)
         IN  (IF FIsNaN(x) THEN 0 ELSE x.num) + SumNumeric(frame, field, i + 1)

RECURSIVE ActualTotals(_, _, _)
\* lines 307-319: the loop over self.all_data from sheet i on; a later
\* matching sheet overwrites what an earlier one set
ActualTotals(sheets, i, acc) ==
    IF i > Len(sheets) THEN acc
    ELSE LET sheet == sheets[i]
             frame == DataFrame(sheet.rows)
         IN  IF RootIsActive(sheet.name)
             THEN ActualTotals(sheets, i + 1,
                    [acc EXCEPT !.actual_active_count = Len(frame),
                                !.actual_estimate_sum =
                                    IF "current_year_severance" \in sheet.cols
                                    THEN SumNumeric(frame, "current_year_severance", 1)
                                    ELSE @])
             ELSE IF RootIsRetired(sheet.name)
             THEN ActualTotals(sheets, i + 1,
                    [acc EXCEPT !.actual_retired_count = Len(frame)])
             ELSE ActualTotals(sheets, i + 1, acc)

\* the emp_id "전체" of a finding about the whole batch
Whole == Str(<<"a", "l", "l">>)

\* float(x) succeeds and is not NaN; the value is ReasonNum(x)
IsFloatable(x) ==
    \/ x.k \in {"num", "int"}
    \/ x.k = "str" /\ IsDigits(Strip(x.s))

\* DataValidator._validate_retirement_benefit_summary
RootValidateRetirementBenefitSummary(sheet, sheets) ==
    IF sheet.rows = <<>> THEN <<>>
    ELSE LET summary == sheet.rows[1]
             reported_active_count == Get(sheet, summary, "active_count")
             reported_retired_count == Get(sheet, summary, "retired_count")
             reported_estimate_sum == Get(sheet, summary, "estimate_sum")
             actual == ActualTotals(sheets, 1,
                          [actual_active_count |-> 0, actual_retired_count |-> 0,
                           actual_estimate_sum |-> 0])
         IN  When(IsFloatable(reported_active_count)
                    /\ ReasonNum(reported_active_count) # actual.actual_active_count,
                  Finding("sum_mismatch", Whole, "active_count",
                          actual.actual_active_count))
             \o When(IsFloatable(reported_retired_count)
                    /\ ReasonNum(reported_retired_count) # actual.actual_retired_count,
                  Finding("sum_mismatch", Whole, "retired_count",
                          actual.actual_retired_count))
             \o When(IsFloatable(reported_estimate_sum)
                    /\ Abs(ReasonNum(reported_estimate_sum)
                           - actual.actual_estimate_sum) > 1,
                  Finding("sum_mismatch", Whole, "estimate_sum",
                          actual.actual_estimate_sum))

\* lines 361-370: the normalised, non-empty IDs of the Active sheets, or
\* of the Retired ones
RootCollectIds(sheets, active) ==
    UNION {{NormalizeEmployeeId(sheets[i].rows[j]["emp_id"]) :
              j \in {r \in 1..Len(sheets[i].rows) :
                       /\ ~IsNa(DataFrame(sheets[i].rows)[r]["emp_id"])
                       /\ NormalizeEmployeeId(sheets[i].rows[r]["emp_id"]) # Str(<<>>)}} :
           i \in {s \in 1..Len(sheets) :
                    /\ "emp_id" \in sheets[s].cols
                    /\ IF active THEN RootIsActive(sheets[s].name)
                       ELSE RootIsRetired(sheets[s].name)}}

\* sorted(ids) for a set of strings
SortedIds(ids) ==
    [k \in 1..Cardinality(ids) |->
        CHOOSE x \in ids : Cardinality({y \in ids : SeqLess(y.s, x.s)}) = k - 1]

\* lines 372-380 for one sheet
RootCrossDuplicateFindings(name, duplicates) ==
    IF RootIsActive(name) \/ RootIsRetired(name)
    THEN [k \in 1..Cardinality(duplicates) |->
            Finding("cross_dup", SortedIds(duplicates)[k], "active_and_retired", 0)]
    ELSE <<>>

\* lines 383-394 for one sheet
RootSheetErrors(sheet, sheets, base, active_ids, retired_ids) ==
    CASE RootIsActive(sheet.name) -> RootValidateActiveEmployees(sheet, base)
      [] RootIsRetired(sheet.name) -> RootValidateRetiredEmployees(sheet)
      [] RootIsAdditional(sheet.name) ->
           RootValidateAdditionalEmployees(sheet, active_ids, retired_ids)
      [] RootIsSummary(sheet.name) ->
           RootValidateRetirementBenefitSummary(sheet, sheets)
      [] OTHER -> <<>>

\* DataValidator.validate: the findings of every sheet, the cross-register
\* ones first; raised when a sheet validation lets an exception through
RootValidateResult(sheets, base) ==
    LET active_employee_ids == RootCollectIds(sheets, TRUE)
        retired_employee_ids == RootCollectIds(sheets, FALSE)
        duplicates == active_employee_ids \cap retired_employee_ids
    IN  IF \E i \in 1..Len(sheets) :
              RootIsActive(sheets[i].name) /\ RootActiveRaises(sheets[i])
        THEN [done |-> TRUE, raised |-> TRUE, sheets |-> <<>>]
        ELSE [done |-> TRUE, raised |-> FALSE,
              sheets |-> [i \in 1..Len(sheets) |->
                  RootCrossDuplicateFindings(sheets[i].name, duplicates)
                  \o RootSheetErrors(sheets[i], sheets, base,
                                     active_employee_ids, retired_employee_ids)]]


(***************************************************************************)
(* Rule validator of the service: src/backend/services/validator.py        *)
(*                                                                         *)
(* An error or warning is a finding that also names its sheet; `category`  *)
(* is the "type" of the source, `detail` its "column".                     *)
(***************************************************************************)
SheetFinding(sheet_name, type, emp_id, column, n) ==
    [sheet |-> sheet_name, category |-> type, emp_id |-> emp_id,
     detail |-> column, n |-> n]

\* DataValidator._is_valid_emp_id
IsValidEmpId(emp_id) ==
    /\ ~IsNa(emp_id)
    /\ Strip(PyStr(emp_id)) \notin
         {<<>>, <<"n", "a", "n">>, <<"N", "o", "n", "e">>, <<"N", "a", "N">>}

\* str(row.get('emp_id', ''))
BackendEmpId(sheet, row) ==
    IF "emp_id" \in sheet.cols THEN Str(PyStr(row["emp_id"])) ELSE Str(<<>>)

\* DataValidator._check_required_fields
CheckRequiredFields(sheet, row) ==
    Concat([k \in 1..Len(ActiveRequired) |->
        When(ActiveRequired[k] \notin sheet.cols \/ IsBlank(row[ActiveRequired[k]]),
             SheetFinding(sheet.name, "required_field_missing",
                          BackendEmpId(sheet, row), ActiveRequired[k], 0))])

\* a column of the row that holds a value
Supplied(sheet, row, field) == field \in sheet.cols /\ ~IsNa(row[field])

\* DataValidator._check_numeric_ranges
CheckNumericRanges(sheet, row) ==
    LET amounts == <<"min_salary_contract", "prev_min_salary_contract",
                     "interim_settlement_amount">>
    IN  Concat([k \in 1..3 |->
            When(Supplied(sheet, row, amounts[k]) /\ NumberBelow(row[amounts[k]], 0),
                 SheetFinding(sheet.name, "invalid_value",
                              BackendEmpId(sheet, row), amounts[k], 0))])

\* DataValidator._check_numeric_warnings
CheckNumericWarnings(sheet, row) ==
    When(Supplied(sheet, row, "base_salary")
           /\ NumberBelow(row["base_salary"], LowSalary),
         SheetFinding(sheet.name, "low_salary", BackendEmpId(sheet, row),
                      "base_salary", 0))

\* datetime.strptime(s, '%Y-%m-%d')
StrptimeIso(cs) ==
    IF Len(cs) = 10 /\ cs[5] = "-" /\ cs[8] = "-"
    THEN Strptime8(SubSeq(cs, 1, 4) \o SubSeq(cs, 6, 7) \o SubSeq(cs, 9, 10))
    ELSE NoDate

NullTexts == {<<>>, <<"n", "a", "n">>, <<"N", "o", "n", "e">>}

\* DataValidator._validate_date_format: TRUE when it returns a message
ValidateDateFormat(date_str) ==
    /\ Strip(PyStr(date_str)) \notin NullTexts
    /\ ~HasDate(StrptimeIso(Strip(PyStr(date_str))))

\* DataValidator._check_date_validity
CheckDateValidity(sheet, row) ==
    LET date_fields == <<"birth_date", "hire_date", "interim_settlement_date">>
    IN  Concat([k \in 1..3 |->
            When(Supplied(sheet, row, date_fields[k])
                   /\ ValidateDateFormat(row[date_fields[k]]),
                 SheetFinding(sheet.name, "invalid_date",
                              BackendEmpId(sheet, row), date_fields[k], 0))])

\* DataValidator._parse_date
BackendParseDate(date_str) ==
    IF IsNa(date_str) \/ Strip(PyStr(date_str)) \in NullTexts THEN NoDate
    ELSE StrptimeIso(Strip(PyStr(date_str)))

\* DataValidator._check_logical_consistency; the age is days / 365.25
CheckLogicalConsistency(sheet, row) ==
    LET birth_date == BackendParseDate(Get(sheet, row, "birth_date"))
        hire_date == BackendParseDate(Get(sheet, row, "hire_date"))
        interim_date == BackendParseDate(Get(sheet, row, "interim_settlement_date"))
        days == DaysBetween(hire_date, birth_date)
        emp_id == BackendEmpId(sheet, row)
    IN  (IF HasDate(birth_date) /\ HasDate(hire_date)
         THEN When(DateLT(hire_date, birth_date),
                   SheetFinding(sheet.name, "logical_error", emp_id, "hire_date", 0))
              \o When(days * 100 < 17 * 36525 \/ days * 100 > 70 * 36525,
                   SheetFinding(sheet.name, "invalid_age", emp_id, "hire_date", 0))
         ELSE <<>>)
        \o When(HasDate(hire_date) /\ HasDate(interim_date)
                  /\ DateLT(interim_date, hire_date),
                SheetFinding(sheet.name, "logical_error", emp_id,
                             "interim_settlement_date", 0))

\* DataValidator._check_conditional_fields
CheckConditionalFields(sheet, row) ==
    LET employee_type == Get(sheet, row, "employee_type")
        estimates == <<"current_year_severance", "next_year_severance">>
    IN  IF employee_type.k \in {"num", "int"} /\ employee_type.n > 2
        THEN Concat([k \in 1..2 |->
                When(estimates[k] \in sheet.cols /\ MissingOrZero(row[estimates[k]]),
                     SheetFinding(sheet.name, "conditional_field_missing",
                                  BackendEmpId(sheet, row), estimates[k], 0))])
        ELSE <<>>

\* the comparisons of a text with a number in the row checks, which raise
BackendRowRaises(sheet, row) ==
    \/ \E f \in {"min_salary_contract", "prev_min_salary_contract",
                 "interim_settlement_amount", "base_salary"} :
          f \in sheet.cols /\ row[f].k = "str"
    \/ Get(sheet, row, "employee_type").k = "str"


\* the rows of the frame the row loop does not skip
CheckedRows(sheet, frame) ==
    {i \in 1..Len(frame) : IsValidEmpId(Get(sheet, frame[i], "emp_id"))}

\* the row errors of one row
RowErrors(sheet, row) ==
    CheckRequiredFields(sheet, row) \o CheckNumericRanges(sheet, row)
    \o CheckDateValidity(sheet, row) \o CheckLogicalConsistency(sheet, row)
    \o CheckConditionalFields(sheet, row)

\* DataValidator._check_duplicates_in_sheet: one error per raw ID that two
\* or more rows with a valid ID share; n counts the rows its message lists
CheckDuplicatesInSheet(sheet, frame) ==
    IF "emp_id" \notin sheet.cols THEN <<>>
    ELSE LET valid == CheckedRows(sheet, frame)
             same(i) == {j \in valid : RawEq(frame[j]["emp_id"], frame[i]["emp_id"])}
             first == {i \in valid : Cardinality(same(i)) >= 2
                                     /\ \A j \in same(i) : j >= i}
         IN  [k \in 1..Cardinality(first) |->
                LET i == CHOOSE x \in first :
                            Cardinality({j \in first : j < x}) = k - 1
                IN  SheetFinding(sheet.name, "duplicate_emp_id",
                                 Str(PyStr(frame[i]["emp_id"])), "emp_id",
                                 Cardinality(same(i)))]

\* the sheet-name tests of _validate_phase1_rules and _validate_cross_sheet
BackendIsActive(name) ==
    \/ Contains(LowerNoSpace(name), <<"jaejikja", "myeongbu">>)
    \/ Contains(LowerNoSpace(name), <<"jaejikja">>)

BackendIsRetired(name) ==
    /\ ~BackendIsActive(name)
    /\ \/ Contains(LowerNoSpace(name), <<"toejikja">>)
       \/ Contains(LowerNoSpace(name), <<"dc", "jeonhwanja">>)

BackendIsAdditional(name) ==
    /\ ~BackendIsActive(name) /\ ~BackendIsRetired(name)
    /\ \/ Contains(LowerNoSpace(name), <<"jeonchurip">>)
       \/ Contains(LowerNoSpace(name), <<"chuga">>)

\* DataValidator._count_valid_records
CountValidRecords(sheet, frame) ==
    IF "emp_id" \notin sheet.cols THEN Len(frame)
    ELSE Cardinality(CheckedRows(sheet, frame))

\* the sheet_result of one sheet: _validate_active_employee_sheet for an
\* Active sheet, the bare record count for any other
SheetResult(sheet) ==
    LET frame == DataFrame(sheet.rows)
        checked == CheckedRows(sheet, frame)
        invalid == {i \in checked : RowErrors(sheet, frame[i]) # <<>>}
        duplicate_errors == CheckDuplicatesInSheet(sheet, frame)
    IN  IF BackendIsActive(sheet.name)
        THEN [total_records |-> CountValidRecords(sheet, frame),
              valid_records |-> Cardinality(checked \ invalid),
              invalid_records |-> Cardinality(invalid) + Len(duplicate_errors),
              errors |-> Concat([i \in 1..Len(frame) |->
                            IF i \in checked THEN RowErrors(sheet, frame[i])
                            ELSE <<>>]) \o duplicate_errors,
              warnings |-> Concat([i \in 1..Len(frame) |->
                            IF i \in checked THEN CheckNumericWarnings(sheet, frame[i])
                            ELSE <<>>])]
        ELSE [total_records |-> CountValidRecords(sheet, frame),
              valid_records |-> 0, invalid_records |-> 0,
              errors |-> <<>>, warnings |-> <<>>]

\* the valid raw IDs of the Active sheets, or of the Retired ones
BackendCollectIds(sheets, active) ==
    UNION {{DataFrame(sheets[s].rows)[i]["emp_id"] :
              i \in CheckedRows(sheets[s], DataFrame(sheets[s].rows))} :
           s \in {x \in 1..Len(sheets) :
                    /\ "emp_id" \in sheets[x].cols
                    /\ IF active THEN BackendIsActive(sheets[x].name)
                       ELSE BackendIsRetired(sheets[x].name)}}

\* emp_id in ids, for raw values
RawIn(emp_id, ids) == \E x \in ids : RawEq(x, emp_id)

\* DataValidator._check_active_retired_duplicates
CheckActiveRetiredDuplicates(sheets) ==
    LET active_emp_ids == BackendCollectIds(sheets, TRUE)
    IN  Concat([s \in 1..Len(sheets) |->
          IF BackendIsRetired(sheets[s].name) /\ "emp_id" \in sheets[s].cols
          THEN LET frame == DataFrame(sheets[s].rows)
               IN  Concat([i \in 1..Len(frame) |->
                     When(IsValidEmpId(frame[i]["emp_id"])
                            /\ RawIn(frame[i]["emp_id"], active_emp_ids),
                          SheetFinding(sheets[s].name, "duplicate_across_sheets",
                                       Str(PyStr(frame[i]["emp_id"])), "emp_id", 0))])
          ELSE <<>>])

\* DataValidator._check_additional_sheet
CheckAdditionalSheet(sheets) ==
    LET active_emp_ids == BackendCollectIds(sheets, TRUE)
        retired_emp_ids == BackendCollectIds(sheets, FALSE)
    IN  Concat([s \in 1..Len(sheets) |->
          IF /\ BackendIsAdditional(sheets[s].name)
             /\ "emp_id" \in sheets[s].cols /\ "reason" \in sheets[s].cols
          THEN LET frame == DataFrame(sheets[s].rows)
               IN  Concat([i \in 1..Len(frame) |->
                     LET emp_id == frame[i]["emp_id"]
                         reason == frame[i]["reason"]
                         code == IF reason.k \in {"num", "int"} THEN reason.n ELSE 0
                     IN  IF ~IsValidEmpId(emp_id) \/ IsNa(reason) THEN <<>>
                         ELSE IF code \in {1, 5}
                         THEN When(~RawIn(emp_id, active_emp_ids),
                                SheetFinding(sheets[s].name, "additional_not_in_active",
                                             Str(PyStr(emp_id)), "emp_id", code))
                         ELSE When(code = 2 /\ RawIn(emp_id, retired_emp_ids),
                                SheetFinding(sheets[s].name, "additional_duplicate_retired",
                                             Str(PyStr(emp_id)), "emp_id", code))])
          ELSE <<>>])

\* DataValidator._validate_cross_sheet
ValidateCrossSheet(sheets) ==
    LET active_sheets == {s \in 1..Len(sheets) : BackendIsActive(sheets[s].name)}
        retired_sheets == {s \in 1..Len(sheets) : BackendIsRetired(sheets[s].name)}
        additional_sheets ==
            {s \in 1..Len(sheets) : BackendIsAdditional(sheets[s].name)}
    IN  (IF active_sheets # {} /\ retired_sheets # {}
         THEN CheckActiveRetiredDuplicates(sheets) ELSE <<>>)
        \o (IF additional_sheets # {} /\ (active_sheets # {} \/ retired_sheets # {})
            THEN CheckAdditionalSheet(sheets) ELSE <<>>)


RECURSIVE SumOver(_, _)
\* the sum of the numbers values[i], from i on
SumOver(values, i) ==
    IF i > Len(values) THEN 0 ELSE values[i] + SumOver(values, i + 1)

\* ExcelReader.read_all_sheets loads the four employee registers only
MappedData(sheets) == SelectSeq(sheets, LAMBDA sheet : ~RootIsSummary(sheet.name))

\* an Active sheet holds a checked row whose checks raise
BackendRaises(sheets) ==
    \E s \in 1..Len(sheets) :
        /\ BackendIsActive(sheets[s].name)
        /\ \E i \in CheckedRows(sheets[s], DataFrame(sheets[s].rows)) :
              BackendRowRaises(sheets[s], DataFrame(sheets[s].rows)[i])

\* DataValidator._validate_phase1_rules as validate calls it: an exception
\* is caught there and leaves no phase-1 result
ValidatePhase1Rules(sheets) ==
    LET sheet_results == [s \in 1..Len(sheets) |-> SheetResult(sheets[s])]
    IN  IF BackendRaises(sheets)
        THEN [NoPhase1 EXCEPT !.done = TRUE, !.aborted = TRUE]
        ELSE [done |-> TRUE, aborted |-> FALSE,
              sheet_results |-> sheet_results,
              errors |-> ValidateCrossSheet(sheets)
                         \o Concat([s \in 1..Len(sheets) |-> sheet_results[s].errors]),
              warnings |-> Concat([s \in 1..Len(sheets) |-> sheet_results[s].warnings]),
              total_records |-> SumOver([s \in 1..Len(sheets) |-> sheet_results[s].total_records], 1),
              valid_records |-> SumOver([s \in 1..Len(sheets) |-> sheet_results[s].valid_records], 1),
              invalid_records |-> SumOver([s \in 1..Len(sheets) |-> sheet_results[s].invalid_records], 1)]


(***************************************************************************)
(* Batches handed to the validators                                        *)
(***************************************************************************)
\* rows of the register whose IDs range over every kind of cell
MaxDupRows == 3

\* the standard sheet names
NameActive == <<"jaejikja", " ", "myeongbu">>

NameRetired ==
    <<"toejikja", " ", "mit", " ", "DC", "jeonhwanja", " ", "myeongbu">>

NameAdditional == <<"chuga", " ", "myeongbu", "(", "janggigeunsok", ")">>

NameOther == <<"gitajanggi", " ", "jaejikja", " ", "myeongbu">>

NameSummary == <<"gichojaryo", "_", "toejikgeupyeo">>

\* a second sheet of the workbook that names the Active register
NameActiveCopy == <<"(2-2)", "jaejikja", "myeongbu">>

Sheet(name, cols, rows) == [name |-> name, cols |-> cols, rows |-> rows]

BlankRow == [f \in Fields |-> None]

ActiveCols ==
    {"emp_id", "birth_date", "hire_date", "base_salary", "employee_type",
     "current_year_severance", "next_year_severance",
     "interim_settlement_amount", "interim_settlement_date"}

\* an Active record no rule objects to
GoodActive(id) ==
    [BlankRow EXCEPT !["emp_id"] = id,
                     !["birth_date"] = FmtIso(Date(1980, 1, 1)),
                     !["hire_date"] = FmtIso(Date(2015, 3, 1)),
                     !["base_salary"] = IntCell(3000000),
                     !["employee_type"] = IntCell(1),
                     !["current_year_severance"] = IntCell(10),
                     !["next_year_severance"] = IntCell(20)]

IdCols == {"emp_id", "birth_date", "gender"}

\* a Retired record no rule objects to
GoodRetired(id) ==
    [BlankRow EXCEPT !["emp_id"] = id,
                     !["birth_date"] = FmtIso(Date(1960, 1, 1)),
                     !["gender"] = IntCell(1)]

\* a Supplementary record
Additional(id, reason) == [GoodRetired(id) EXCEPT !["reason"] = reason]

Id7 == Str(<<"7">>)

Id8 == Str(<<"8">>)

Id9 == Str(<<"9">>)

\* the cells an ID column can hold
IdCells ==
    {None, Str(<<" ">>), Str(<<"n", "a", "n">>), Id7, Id8,
     Str(<<"7", ".", "0">>), Str(<<"N", "o", "n", "e">>)}

RECURSIVE SubBatches(_)
\* the subsequences of a batch: any of its sheets may be absent
SubBatches(sheets) ==
    IF sheets = <<>> THEN {<<>>}
    ELSE LET rest == SubBatches(Tail(sheets))
         IN  rest \cup {<<Head(sheets)>> \o b : b \in rest}

Reverse(s) == [i \in 1..Len(s) |-> s[Len(s) + 1 - i]]

\* family 1: one Active register, every combination of ID cells
DuplicateBatches ==
    {<<Sheet(NameActive, ActiveCols, [i \in 1..Len(ids) |-> GoodActive(ids[i])])>> :
        ids \in UNION {[1..n -> IdCells] : n \in 1..MaxDupRows}}

ReasonCells ==
    {None, IntCell(1), IntCell(2), IntCell(3), IntCell(4), IntCell(5),
     Str(<<"1">>), Text}

\* family 2: the registers that cross-register rules relate, in either
\* order, each present or absent
CrossBatches ==
    UNION {SubBatches(b) \cup {Reverse(x) : x \in SubBatches(b)} :
        b \in {<<Sheet(NameActive, ActiveCols,
                       [i \in 1..Len(a) |-> GoodActive(a[i])]),
                 Sheet(NameRetired, IdCols,
                       [i \in 1..Len(r) |-> GoodRetired(r[i])]),
                 Sheet(NameOther, ActiveCols, <<GoodActive(Id9)>>),
                 Sheet(NameAdditional, IdCols \cup {"reason"},
                       <<Additional(id, reason)>>)>> :
                a \in {<<Id7>>, <<Id8>>, <<Id7, Id8>>},
                r \in {<<Id7>>, <<Id7, Id7>>, <<Id9>>, <<Id8, Id7>>},
                id \in {Id7, Id9, None, Str(<<" ">>)},
                reason \in ReasonCells}}


\* the ways a required field of a record can be absent or present
FieldStates == {"unsupplied", "null", "blank", "present"}

\* family 3: one Active record, each required field absent or present
RequiredBatches ==
    {<<Sheet(NameActive,
             {"emp_id"} \cup {f \in DOMAIN st : st[f] # "unsupplied"},
             <<[f \in Fields |->
                  IF f \in DOMAIN st
                  THEN CASE st[f] = "present" -> GoodActive(id)[f]
                         [] st[f] = "blank" -> Str(<<" ">>)
                         [] OTHER -> None
                  ELSE IF f = "emp_id" THEN id ELSE None]>>)>> :
        st \in [{"birth_date", "hire_date", "base_salary", "employee_type"}
                  -> FieldStates],
        id \in {Str(<<"1", "0", "0", "1">>), None}}

AmountCells == {None, NaN, IntCell(0), IntCell(5), IntCell(-5), Text, IntCell(20)}

\* family 4: an Active record with malformed values, followed by a sound one
MalformedBatches ==
    {<<Sheet(NameActive, ActiveCols,
             <<[GoodActive(Id7) EXCEPT
                  !["employee_type"] = type,
                  !["current_year_severance"] = curr,
                  !["next_year_severance"] = next,
                  !["base_salary"] = salary,
                  !["hire_date"] = hire],
               GoodActive(Id8)>>)>> :
        type \in {IntCell(1), IntCell(3), Str(<<"3">>), Text, None},
        curr \in AmountCells, next \in AmountCells,
        salary \in {IntCell(3000000), IntCell(1000000), Text},
        hire \in {FmtIso(Date(2015, 3, 1)), Fmt8(Date(2015, 3, 1)),
                  Str(<<"2", "0", "1", "5", "1", "3", "4", "0">>), Text,
                  FmtIso(Date(2025, 6, 1))}}

SummaryCols == {"active_count", "retired_count", "estimate_sum"}

\* the plan summary record
Summary(active, retired, sum) ==
    [BlankRow EXCEPT !["active_count"] = active, !["retired_count"] = retired,
                     !["estimate_sum"] = sum]

\* records of an Active register: with or without an ID, with a numeric or
\* a text estimate
SummaryRecords ==
    {[GoodActive(Id7) EXCEPT !["current_year_severance"] = IntCell(10)],
     [GoodActive(None) EXCEPT !["current_year_severance"] = IntCell(20)],
     [GoodActive(Id8) EXCEPT !["current_year_severance"] = Text]}

\* family 5: a plan summary with the registers it is reconciled against
SummaryBatches ==
    UNION {{b, Reverse(b)} :
        b \in {<<Sheet(NameActive, ActiveCols, a)>> \o extra
                 \o <<Sheet(NameRetired, IdCols, r),
                      Sheet(NameSummary, SummaryCols, <<Summary(ac, rc, sum)>>)>> :
                a \in UNION {[1..n -> SummaryRecords] : n \in 0..2},
                extra \in {<<>>, <<Sheet(NameActiveCopy, ActiveCols,
                                         <<GoodActive(Id9)>>)>>},
                r \in {<<>>, <<GoodRetired(Id9)>>, <<GoodRetired(None)>>},
                ac \in {None, IntCell(1), IntCell(2), Text},
                rc \in {IntCell(0), IntCell(1)},
                sum \in {None, IntCell(10), IntCell(12), IntCell(30)}}}

\* family 6: one Active record, its birth and hire dates a day before and
\* after the ages 17 and 70
AgeBatches ==
    {<<Sheet(NameActive, ActiveCols,
             <<[GoodActive(Id7) EXCEPT !["birth_date"] = birth,
                                       !["hire_date"] = hire]>>)>> :
        birth \in {FmtIso(Date(1980, 1, 1)), FmtIso(Date(1980, 12, 31)), None},
        hire \in {None} \cup
                 {FmtIso(dt) : dt \in {Date(1996, 6, 30), Date(1996, 12, 31),
                                       Date(1997, 1, 1), Date(1997, 12, 31),
                                       Date(2015, 3, 1), Date(2050, 1, 1),
                                       Date(2050, 12, 31), Date(2051, 1, 1)}}}

ValInit ==
    /\ session_state = NoSession
    /\ uploaded_file = NoFile
    /\ df = <<>>
    /\ base_date = Date(2025, 1, 1)
    /\ calculation_method = "ilhal"
    /\ progressive_multipliers = NoTable
    /\ result_rows = NotRun
    /\ probe = NoProbe
    /\ all_data \in DuplicateBatches \cup CrossBatches \cup RequiredBatches
                    \cup MalformedBatches \cup SummaryBatches \cup AgeBatches
    /\ structured_results = NotValidated
    /\ phase1_results = NoPhase1
    /\ calc_summary = NoSummary
    /\ history = NoHistory
    /\ call = NoCall
    /\ returned = <<>>

\* a validate whose findings pile up on those of the run before
Validate_KeepsFindings ==
    /\ ~structured_results.done
    /\ structured_results' =
         LET fresh == RootValidateResult(all_data, base_date)
         IN  IF history = <<>> \/ fresh.raised THEN fresh
             ELSE [fresh EXCEPT !.sheets =
                     [i \in 1..Len(fresh.sheets) |->
                        history[Len(history)].findings.sheets[i] \o fresh.sheets[i]]]
    /\ UNCHANGED <<df, base_date, calculation_method, progressive_multipliers,
                   result_rows, probe, all_data, phase1_results,
                   calc_summary, history, call, returned, session_state,
                   uploaded_file>>

\* DataValidator.validate of src/validator.py
Validate ==
    /\ ~structured_results.done
    /\ structured_results' = RootValidateResult(all_data, base_date)
    /\ UNCHANGED <<df, base_date, calculation_method, progressive_multipliers,
                   result_rows, probe, all_data, phase1_results,
                   calc_summary, history, call, returned, session_state,
                   uploaded_file>>

\* DataValidator.validate of src/backend/services/validator.py, phase 1
ServiceValidate ==
    /\ ~phase1_results.done
    /\ phase1_results' = ValidatePhase1Rules(MappedData(all_data))
    /\ UNCHANGED <<df, base_date, calculation_method, progressive_multipliers,
                   result_rows, probe, all_data, structured_results,
                   calc_summary, history, call, returned, session_state,
                   uploaded_file>>

ValNext == Validate \/ ServiceValidate

SpecValidator == ValInit /\ [][ValNext]_vars

(***************************************************************************)
(* The validation flow of the app: src/app.py lines 206-231                *)
(*                                                                         *)
(* Each press of the button constructs a DataValidator and an              *)
(* EstimateValidator on the registers of the session and runs them;        *)
(* `history` keeps what the earlier presses returned.                      *)
(***************************************************************************)
\* presses of the button after the first
MaxRuns == 2

\* app.py lines 215-220: the frame of the first Active sheet, under the
\* columns the estimator looks up
ActiveFrame(sheets) ==
    LET active_sheets == {i \in 1..Len(sheets) : RootIsActive(sheets[i].name)}
    IN  IF active_sheets = {} THEN <<>>
        ELSE LET sheet == sheets[CHOOSE i \in active_sheets :
                                    \A j \in active_sheets : i <= j]
                 frame == DataFrame(sheet.rows)
             IN  [i \in 1..Len(frame) |->
                    [col_emp_id |-> Get(sheet, frame[i], "emp_id"),
                     col_join_date |-> Get(sheet, frame[i], "hire_date"),
                     col_interim_date |->
                         Get(sheet, frame[i], "interim_settlement_date"),
                     col_salary |-> Get(sheet, frame[i], "base_salary"),
                     col_multiplier |-> None,
                     col_leave_days |-> None,
                     col_leave_years |-> None,
                     col_original_estimate |->
                         Get(sheet, frame[i], "current_year_severance")]]

\* Active records: with or without ID, salary and reported estimate
CoreRows ==
    { [GoodActive(id) EXCEPT !["base_salary"] = s,
                             !["current_year_severance"] = e] :
        id \in {Id7, None}, s \in {IntCell(30), Text},
        e \in {IntCell(290), IntCell(300), None} }

\* batches of an Active register of one or two records, alone or next to a
\* Retired register, in either order
CoreBatches ==
    { b \o tail : b \in { <<Sheet(NameActive, ActiveCols, rows)>> :
                            rows \in [1..1 -> CoreRows] \cup [1..2 -> CoreRows] },
                  tail \in {<<>>, <<Sheet(NameRetired, IdCols, <<GoodRetired(Id7)>>)>>} }
    \cup
    { <<Sheet(NameRetired, IdCols, <<GoodRetired(Id8)>>),
        Sheet(NameActive, ActiveCols, <<r>>)>> : r \in CoreRows }

CoreInit ==
    /\ session_state = NoSession
    /\ uploaded_file = NoFile
    /\ all_data \in CoreBatches
    /\ base_date = Date(2025, 1, 1)
    /\ calculation_method \in {"ilhal", "wolsa"}
    /\ progressive_multipliers \in {NoTable, DefaultTable}
    /\ df = ActiveFrame(all_data)
    /\ result_rows = NotRun
    /\ probe = NoProbe
    /\ structured_results = NotValidated
    /\ phase1_results = NoPhase1
    /\ calc_summary = NoSummary
    /\ history = NoHistory
    /\ call = NoCall
    /\ returned = <<>>

\* a further press: DataValidator.__init__ keeps a reference to the
\* registers, EstimateValidator.__init__ copies the frame; the results of
\* the press before are set aside
Construct ==
    /\ structured_results.done
    /\ result_rows.done
    /\ Len(history) < MaxRuns
    /\ history' = Append(history, [findings |-> structured_results,
                                   rows |-> result_rows])
    /\ structured_results' = NotValidated
    /\ result_rows' = NotRun
    /\ df' = ActiveFrame(all_data)
    /\ UNCHANGED <<base_date, calculation_method, progressive_multipliers,
                   probe, all_data, phase1_results, calc_summary, call,
                   returned, session_state,
                   uploaded_file>>

CoreNext == Validate \/ ValidateCalculation \/ Construct

SpecCore == CoreInit /\ [][CoreNext]_vars

(***************************************************************************)
(* The session of the app: src/app.py                                      *)
(*                                                                         *)
(* Every event of the page runs main() from its first line with the        *)
(* widgets as the user left them; st.session_state outlives the runs.  An  *)
(* uploaded file is its name and the registers processor.process() reads   *)
(* from it.  The settings keep their defaults (single-rate system, the     *)
(* base date and method of the session) and the API key is entered.        *)
(***************************************************************************)
FileNames == {"a.xlsx", "b.xlsx"}

\* an Active record the estimator reconciles
SessionActive(id) ==
    [GoodActive(id) EXCEPT !["base_salary"] = IntCell(30),
                           !["current_year_severance"] = IntCell(290),
                           !["next_year_severance"] = IntCell(300)]

\* the registers of a workbook: a sound Active register; an Active and a
\* Retired register sharing an employee; an Active register without
\* records; no Active register; an Active register on which validate
\* raises; no sheet that any processor matches
SessionBatches ==
    { <<Sheet(NameActive, ActiveCols, <<SessionActive(Id7)>>)>>,
      <<Sheet(NameActive, ActiveCols, <<SessionActive(Id8)>>),
        Sheet(NameRetired, IdCols, <<GoodRetired(Id8)>>)>>,
      <<Sheet(NameActive, ActiveCols, <<>>)>>,
      <<Sheet(NameRetired, IdCols, <<GoodRetired(Id7)>>)>>,
      <<Sheet(NameActive, ActiveCols,
              <<[SessionActive(Id7) EXCEPT !["employee_type"] = IntCell(3),
                                           !["current_year_severance"] = Text]>>)>>,
      <<>> }

SessionFiles == { [name |-> n, data |-> d] : n \in FileNames, d \in SessionBatches }

\* lines 32-41: a file of another name than the last one resets the flags
\* and deletes the cached results
ResetOnNewFile(state, file) ==
    IF state.last_uploaded_file = <<>> \/ state.last_uploaded_file[1] # file.name
    THEN [last_uploaded_file |-> <<file.name>>,
          validation_done |-> FALSE, calc_done |-> FALSE,
          ai_analysis_done |-> FALSE,
          validation_results |-> <<>>, calc_results_df |-> <<>>,
          ai_analysis_result |-> <<>>, calc_summary |-> <<>>]
    ELSE state

\* lines 226-227: pd.to_numeric(..., errors='coerce').fillna(0).astype(int)
\* of the employee ID of a row of the result frame
AsIntColumn(row) ==
    [row EXCEPT !.emp_id =
        LET x == ToNumeric(row.emp_id, 1)
        IN  IntCell(IF FIsNaN(x) THEN 0 ELSE x.num \div x.den)]

\* lines 219-227: validate_calculation on df_active, the frame of the first
\* Active sheet
CalcResultsDf(df_active, order) ==
    [i \in 1..Len(df_active) |->
        AsIntColumn(ResultRow(df_active[i], base_date, calculation_method,
                              NoTable, order))]

\* lines 206-231: the run of the button, up to the statement that raises
\* (the except of line 421 shows the error and keeps what was stored), given
\* what validate, validate_calculation and get_summary return
RunValidation(state, processed_data, validation_results, result_df, summary) ==
    LET validated == [state EXCEPT !.validation_results = <<validation_results>>,
                                   !.validation_done = TRUE]
        calculated == [validated EXCEPT !.calc_results_df = <<result_df>>,
                                        !.calc_done = TRUE]
    IN  IF validation_results.raised THEN state
        ELSE IF ~\E i \in 1..Len(processed_data) :
                    RootIsActive(processed_data[i].name)
             THEN validated
        ELSE IF summary.raised THEN calculated
        ELSE [calculated EXCEPT !.calc_summary = <<summary>>]

\* lines 390-406: the run of the AI button, given what validate returns
\* when the run calls it; the report is known by the registers and the
\* findings it was asked about
RunAnalysis(state, processed_data, validation_results) ==
    LET with_findings ==
            IF state.validation_results = <<>>
            THEN [state EXCEPT !.validation_results = <<validation_results>>]
            ELSE state
    IN  IF state.validation_results = <<>> /\ validation_results.raised
        THEN state
        ELSE [with_findings EXCEPT
                !.ai_analysis_result =
                    <<[processed_data |-> processed_data,
                       validation_results |-> with_findings.validation_results[1]]>>,
                !.ai_analysis_done = TRUE]

SessionFrame ==
    <<df, base_date, calculation_method, progressive_multipliers, result_rows,
      probe, all_data, structured_results, phase1_results, calc_summary,
      history, call, returned>>

SessionInit ==
    /\ session_state = NoSession
    /\ uploaded_file = NoFile
    /\ df = <<>>
    /\ base_date = Date(2025, 1, 1)
    /\ calculation_method = "ilhal"
    /\ progressive_multipliers = NoTable
    /\ result_rows = NotRun
    /\ probe = NoProbe
    /\ all_data = <<>>
    /\ structured_results = NotValidated
    /\ phase1_results = NoPhase1
    /\ calc_summary = NoSummary
    /\ history = NoHistory
    /\ call = NoCall
    /\ returned = <<>>

\* the user puts a file into the uploader, in place of the one that may be
\* there; the run resets the session for a new name (lines 29-41)
Upload ==
    /\ \E file \in SessionFiles :
         /\ file # uploaded_file
         /\ uploaded_file' = file
         /\ session_state' = ResetOnNewFile(session_state, file)
    /\ UNCHANGED SessionFrame

\* the user takes the file out of the uploader: the run shows the hint of
\* line 425 only
RemoveFile ==
    /\ uploaded_file # NoFile
    /\ uploaded_file' = NoFile
    /\ UNCHANGED session_state
    /\ UNCHANGED SessionFrame

\* the user presses the validation button, which the page shows once the
\* file has a matched sheet (lines 133-135)
PressValidation ==
    /\ uploaded_file # NoFile
    /\ uploaded_file.data # <<>>
    /\ \E order \in SortedTables(NoTable.rows),
          state \in {ResetOnNewFile(session_state, uploaded_file)},
          validation_results \in {RootValidateResult(uploaded_file.data, base_date)},
          df_active \in {ActiveFrame(uploaded_file.data)} :
         \E result_df \in {CalcResultsDf(df_active, order)} :
            session_state' =
                RunValidation(state, uploaded_file.data, validation_results,
                              result_df, GetSummaryOf(result_df))
    /\ UNCHANGED uploaded_file
    /\ UNCHANGED SessionFrame

\* the user presses the AI button
PressAnalysis ==
    /\ uploaded_file # NoFile
    /\ uploaded_file.data # <<>>
    /\ \E state \in {ResetOnNewFile(session_state, uploaded_file)},
          validation_results \in {RootValidateResult(uploaded_file.data, base_date)} :
         session_state' = RunAnalysis(state, uploaded_file.data, validation_results)
    /\ UNCHANGED uploaded_file
    /\ UNCHANGED SessionFrame

SessionNext == Upload \/ RemoveFile \/ PressValidation \/ PressAnalysis

SpecSession == SessionInit /\ [][SessionNext]_vars

(***************************************************************************)
(* Field normalizers: src/validator.py, src/validatorcalculate.py and      *)
(* src/backend/services/data_mapper.py                                     *)
(*                                                                         *)
(* A call is [fn, arg]; `returned` lists what the function returned when   *)
(* applied to the argument, then to its own result, and so on.             *)
(***************************************************************************)
\* float(s) accepts s: digits with at most one ".", and at least one digit,
\* blanks around it ignored
IsFloatText(cs) ==
    LET s == Strip(cs)
        dots == {i \in 1..Len(s) : s[i] = "."}
    IN  /\ Cardinality(dots) <= 1
        /\ \A i \in 1..Len(s) : s[i] = "." \/ IsDigit(s[i])
        /\ \E i \in 1..Len(s) : IsDigit(s[i])

\* int(float(s)) of such a text: the digits before the "."
IntOfFloatText(cs) ==
    LET s == Strip(cs)
        dots == {i \in 1..Len(s) : s[i] = "."}
        whole == IF dots = {} THEN s
                 ELSE SubSeq(s, 1, (CHOOSE i \in dots : TRUE) - 1)
    IN  IntOf(whole)

\* str.lower() over the letters the IDs are written with
LowerText(cs) ==
    [i \in 1..Len(cs) |->
        CASE cs[i] = "N" -> "n" [] cs[i] = "A" -> "a" [] OTHER -> cs[i]]

\* the whole number a numeric cell holds
CellInt(v) == v.n

\* int(x) of line 337 raises ValueError for this cell
IntRaises(x) == x.k = "str" /\ ~IsDigits(Strip(x.s))

\* DataMapper._normalize_employee_number (lines 331-342), over a column
NormalizeEmployeeNumber(series) ==
    IF \E i \in 1..Len(series) :
          ~IsNa(series[i]) /\ series[i] # Str(<<>>) /\ IntRaises(series[i])
    THEN [i \in 1..Len(series) |-> Str(Strip(PyStr(series[i])))]
    ELSE [i \in 1..Len(series) |->
            IF IsNa(series[i]) \/ series[i] = Str(<<>>) THEN Str(<<>>)
            ELSE IF series[i].k = "str"
                 THEN Str(Digits(IntOf(Strip(series[i].s))))
                 ELSE Str(PyStr(IntCell(CellInt(series[i]))))]

\* convert_emp_id of DataMapper._normalize_employee_number_with_leading_zero
\* (lines 604-626)
ConvertEmpId(value) ==
    IF IsNa(value) \/ value = Str(<<>>) THEN Str(<<>>)
    ELSE LET stripped == Strip(PyStr(value))
             has_dot == \E i \in 1..Len(stripped) : stripped[i] = "."
         IN  IF has_dot /\ ~IsFloatText(stripped) THEN Str(stripped)
             ELSE LET emp_id_str == IF has_dot
                                    THEN Digits(IntOfFloatText(stripped))
                                    ELSE stripped
                  IN  IF LowerText(emp_id_str)
                           \in {<<"n", "a", "n">>, <<"n", "o", "n", "e">>}
                      THEN Str(<<>>)
                      ELSE IF Len(emp_id_str) < 4 /\ IsDigits(emp_id_str)
                           THEN Str(ZeroPad(IntOf(emp_id_str), 4))
                           ELSE Str(emp_id_str)

\* DataMapper._normalize_employee_number_with_leading_zero (lines 594-628)
NormalizeEmployeeNumberWithLeadingZero(series) ==
    [i \in 1..Len(series) |-> ConvertEmpId(series[i])]

\* convert_date of DataMapper._normalize_date_from_number (lines 348-369):
\* "YYYY-MM-DD" text, or None
ConvertDate(value) ==
    IF IsNa(value) \/ value = Str(<<>>) THEN None
    ELSE IF value.k = "str" /\ ~IsFloatText(value.s) THEN None
    ELSE LET date_str == IF value.k = "str"
                         THEN Digits(IntOfFloatText(value.s))
                         ELSE PyStr(IntCell(CellInt(value)))
         IN  IF Len(date_str) = 8
             THEN Str(SubSeq(date_str, 1, 4) \o <<"-">> \o SubSeq(date_str, 5, 6)
                        \o <<"-">> \o SubSeq(date_str, 7, 8))
             ELSE IF Len(date_str) = 6
             THEN Str((IF IntOf(SubSeq(date_str, 1, 2)) > 50
                       THEN <<"1", "9">> ELSE <<"2", "0">>)
                        \o SubSeq(date_str, 1, 2) \o <<"-">>
                        \o SubSeq(date_str, 3, 4) \o <<"-">>
                        \o SubSeq(date_str, 5, 6))
             ELSE None

(***************************************************************************)
(* Sheet recognition: src/backend/services/excel_reader.py                 *)
(*                                                                         *)
(* A sheet name is a sequence of words and signs; DC is written "DC",      *)
(* "dc" or "Dc".  No keyword of SHEET_KEYWORDS straddles two words of the  *)
(* names used here, so `in` is containment of word sequences.              *)
(***************************************************************************)
\* the signs re.sub(r'[^\w가-힣]', '', name) removes
Signs == {" ", "(", ")", "-"}

\* ExcelReader._normalize_sheet_name (lines 110-123)
NormalizeSheetName(name) ==
    LET kept == SelectSeq(name, LAMBDA w : w \notin Signs)
    IN  [i \in 1..Len(kept) |->
            IF kept[i] \in {"DC", "Dc", "dc"} THEN "dc" ELSE kept[i]]

\* SHEET_KEYWORDS (lines 13-18): the keywords of each standard name
SheetKeywords(standard_name) ==
    CASE standard_name = NameActive -> << <<"jaejikja">>, <<"myeongbu">> >>
      [] standard_name = NameRetired ->
           << <<"toejikja">>, <<"DC", "jeonhwanja">>, <<"myeongbu">> >>
      [] standard_name = NameAdditional ->
           << <<"chuga">>, <<"myeongbu">>, <<"janggigeunsok">> >>
      [] standard_name = NameOther -> << <<"gitajanggi">> >>

\* lines 92-96: the number of keywords the sheet name contains
Score(sheet, keywords) ==
    Cardinality({k \in 1..Len(keywords) :
                   Contains(NormalizeSheetName(sheet),
                            NormalizeSheetName(keywords[k]))})

RECURSIVE BestMatch(_, _, _, _, _)
\* lines 84-101: the first sheet of the highest score; 0 stands for None
BestMatch(available_sheets, keywords, i, best_match, best_score) ==
    IF i > Len(available_sheets) THEN [match |-> best_match, score |-> best_score]
    ELSE IF Score(available_sheets[i], keywords) > best_score
         THEN BestMatch(available_sheets, keywords, i + 1, i,
                        Score(available_sheets[i], keywords))
         ELSE BestMatch(available_sheets, keywords, i + 1, best_match, best_score)

\* ExcelReader._find_sheet_by_keywords (lines 71-108): the position of the
\* sheet it returns, 0 for None
FindSheetByKeywords(keywords, available_sheets) ==
    LET best == BestMatch(available_sheets, keywords, 1, 0, 0)
        min_keywords == IF Len(keywords) - 1 > 1 THEN Len(keywords) - 1 ELSE 1
    IN  IF best.score >= min_keywords THEN best.match ELSE 0

StandardNames == {NameActive, NameRetired, NameAdditional, NameOther}

(***************************************************************************)
(* Inputs and calls of the field normalizers and of the sheet recognition  *)
(***************************************************************************)
\* characters of an employee ID text
MaxIdLen == 5

\* times a normalizer is applied to its own result
MaxPasses == 2

\* sheets of a workbook
MaxSheets == 2

IdChars == {"1", "0", ".", " "}

IdTexts == UNION { [1..n -> IdChars] : n \in 0..MaxIdLen }

\* employee-ID columns: one cell of any text, of a number or of no value,
\* and columns of two cells
IdSeries ==
    { <<Str(cs)>> : cs \in IdTexts }
    \cup { <<c>> : c \in {None, NaN, Num(1001), Num(12), IntCell(12),
                          IntCell(1001), Str(<<"A", "1">>),
                          Str(<<"n", "a", "n">>), Str(<<"N", "o", "n", "e">>),
                          Str(<<"A", ".", "0">>)} }
    \cup { <<Num(1001), Str(<<"A", "1">>)>>, <<Num(12), None>>,
           <<Str(<<"1", ".", "0">>), IntCell(12)>> }

DateYears == {1900, 1999, 2000, 2024, 2100}

\* eight digits: every day of the years above, and months and days that no
\* calendar has
DateTexts ==
    { Str(ZeroPad(y, 4) \o ZeroPad(m, 2) \o ZeroPad(d, 2)) :
        y \in DateYears, m \in 0..13, d \in 0..32 }

\* six digits YYMMDD around the pivot year, as text and as numbers
ShortDateCells ==
    { Str(ZeroPad(yy, 2) \o ZeroPad(m, 2) \o ZeroPad(d, 2)) :
        yy \in {0, 5, 20, 49, 50, 51, 99}, m \in {1, 2, 12}, d \in {1, 29, 31} }
    \cup
    { IntCell(yy * 10000 + m * 100 + d) :
        yy \in {20, 49, 50, 51}, m \in {1, 12}, d \in {1, 31} }
    \cup
    { Num(yy * 10000 + 101) : yy \in {49, 50} }

\* a sheet name without blanks and without its parenthesis
Compact(name) ==
    SelectSeq(name, LAMBDA w : w \notin {" ", "(", ")", "janggigeunsok"})

\* "(2-k)" and "2-k ", the numbering of the sheets of a workbook
Numbering(standard_name) ==
    CASE standard_name = NameActive -> "2"
      [] standard_name = NameOther -> "3"
      [] standard_name = NameRetired -> "4"
      [] standard_name = NameAdditional -> "5"

LowerDC(name) == [i \in 1..Len(name) |-> IF name[i] = "DC" THEN "dc" ELSE name[i]]

\* the ways a workbook writes a standard sheet name
Variants(standard_name) ==
    LET k == Numbering(standard_name)
        plain == {standard_name, Compact(standard_name),
                  <<"(", "2", "-", k, ")">> \o standard_name,
                  <<"(", "2", "-", k, ")">> \o Compact(standard_name),
                  <<"(", "2", "-", k, ")", " ">> \o standard_name,
                  <<"2", "-", k, " ">> \o Compact(standard_name)}
    IN  plain \cup { LowerDC(name) : name \in plain }

AllVariants == UNION { Variants(s) : s \in StandardNames }

\* the standard name a sheet name is a variant of
StandardOf(sheet) == CHOOSE s \in StandardNames : sheet \in Variants(s)

\* workbooks that hold each register at most once, in any order
Workbooks ==
    { w \in UNION { [1..n -> AllVariants] : n \in 1..MaxSheets } :
        \A i, j \in 1..Len(w) : i # j => StandardOf(w[i]) # StandardOf(w[j]) }

NormInit ==
    /\ session_state = NoSession
    /\ uploaded_file = NoFile
    /\ df = <<>>
    /\ base_date = Date(2025, 1, 1)
    /\ calculation_method = "ilhal"
    /\ progressive_multipliers = NoTable
    /\ result_rows = NotRun
    /\ probe = NoProbe
    /\ all_data = <<>>
    /\ structured_results = NotValidated
    /\ phase1_results = NoPhase1
    /\ calc_summary = NoSummary
    /\ history = NoHistory
    /\ returned = <<>>
    /\ call \in
         { [fn |-> f, arg |-> a] :
             f \in {"_normalize_employee_id", "_normalize_employee_number",
                    "_normalize_employee_number_with_leading_zero"},
             a \in IdSeries }
         \cup
         { [fn |-> f, arg |-> <<c>>] :
             f \in {"DataValidator._parse_date", "EstimateValidator._parse_date",
                    "_normalize_date_from_number"},
             c \in DateTexts \cup ShortDateCells }
         \cup
         { [fn |-> "_find_sheet_by_keywords", arg |-> w] : w \in Workbooks }

\* what the next call is applied to: the argument, or the last result
Operand == IF returned = <<>> THEN call.arg ELSE returned[Len(returned)]

\* what a call of a normalizer leaves alone
NormFrame ==
    <<df, base_date, calculation_method, progressive_multipliers, result_rows,
      probe, all_data, structured_results, phase1_results, calc_summary,
      history, call, session_state,
      uploaded_file>>

\* DataValidator._normalize_employee_id on every cell of the column
CallNormalizeEmployeeId ==
    /\ call.fn = "_normalize_employee_id"
    /\ Len(returned) < MaxPasses
    /\ returned' = Append(returned, [i \in 1..Len(Operand) |->
                                       NormalizeEmployeeId(Operand[i])])
    /\ UNCHANGED NormFrame

\* DataMapper._normalize_employee_number
CallNormalizeEmployeeNumber ==
    /\ call.fn = "_normalize_employee_number"
    /\ Len(returned) < MaxPasses
    /\ returned' = Append(returned, NormalizeEmployeeNumber(Operand))
    /\ UNCHANGED NormFrame

\* DataMapper._normalize_employee_number_with_leading_zero
CallNormalizeEmployeeNumberWithLeadingZero ==
    /\ call.fn = "_normalize_employee_number_with_leading_zero"
    /\ Len(returned) < MaxPasses
    /\ returned' = Append(returned, NormalizeEmployeeNumberWithLeadingZero(Operand))
    /\ UNCHANGED NormFrame

\* DataValidator._parse_date
CallRootParseDate ==
    /\ call.fn = "DataValidator._parse_date"
    /\ returned = <<>>
    /\ returned' = << <<RootParseDate(call.arg[1])>> >>
    /\ UNCHANGED NormFrame

\* EstimateValidator._parse_date
CallEstParseDate ==
    /\ call.fn = "EstimateValidator._parse_date"
    /\ returned = <<>>
    /\ \E out \in EstParseDateOutcomes(call.arg[1]) :
          returned' = << <<out>> >>
    /\ UNCHANGED NormFrame

\* DataMapper._normalize_date_from_number
CallNormalizeDateFromNumber ==
    /\ call.fn = "_normalize_date_from_number"
    /\ returned = <<>>
    /\ returned' = << <<ConvertDate(call.arg[1])>> >>
    /\ UNCHANGED NormFrame

\* ExcelReader.read_all_sheets, lines 45-46: _find_sheet_by_keywords for
\* every standard name
CallFindSheetByKeywords ==
    /\ call.fn = "_find_sheet_by_keywords"
    /\ returned = <<>>
    /\ returned' = << [s \in StandardNames |->
                         FindSheetByKeywords(SheetKeywords(s), call.arg)] >>
    /\ UNCHANGED NormFrame

NormNext ==
    \/ CallNormalizeEmployeeId
    \/ CallNormalizeEmployeeNumber
    \/ CallNormalizeEmployeeNumberWithLeadingZero
    \/ CallRootParseDate
    \/ CallEstParseDate
    \/ CallNormalizeDateFromNumber
    \/ CallFindSheetByKeywords

SpecNormalizer == NormInit /\ [][NormNext]_vars

(***************************************************************************)
(* Properties of the estimator                                             *)
(***************************************************************************)
Rows == result_rows.rows

\* the record's start date lies on or before the valuation date
InService(r) == r.start_date # NoDate /\ DateLE(r.start_date, base_date)

YearLen(y) == IF IsLeap(y) THEN 366 ELSE 365

RECURSIVE YearsLen(_, _)
\* the days of the years y1 .. y2 - 1
YearsLen(y1, y2) == IF y1 >= y2 THEN 0 ELSE YearLen(y1) + YearsLen(y1 + 1, y2)

RECURSIVE DayOfYear(_, _, _)
DayOfYear(y, m, d) == IF m = 1 THEN d ELSE DaysInMonth(y, m - 1) + DayOfYear(y, m - 1, d)

\* the days from a to b, counted year by year
SpanDays(a, b) ==
    YearsLen(a.y, b.y) + DayOfYear(b.y, b.m, b.d) - DayOfYear(a.y, a.m, a.d)

\* the whole calendar months from a to b: the most months that, added to a,
\* do not pass b
WholeMonths(a, b) ==
    CHOOSE k \in 0..((b.y - a.y + 1) * 12) :
        DateLE(AddMonths(a, k), b) /\ DateLT(b, AddMonths(a, k + 1))

C7_Case(r) ==
    /\ calculation_method = "ilhal"
    /\ base_date = Date(2025, 1, 1)
    /\ r.start_date = Date(2020, 1, 1)

\* C7, as stated: under the actual method, start 2020-01-01 and base
\* 2025-01-01 give service_years = 1827/365 (about 5.0027).
C7_AsStated ==
    \A i \in 1..Len(Rows) :
        C7_Case(Rows[i]) => FEq(Rows[i].service_years, F(1827, 365))

\* C7, amended: under the actual method, start 2020-01-01 and base
\* 2025-01-01 give service_years = 1828/365, reported as 5.0082: the 1827
\* days between the two dates plus the inclusive day.
C7_ActualExample ==
    \A i \in 1..Len(Rows) :
        C7_Case(Rows[i]) =>
            /\ FEq(Rows[i].service_years, F(1828, 365))
            /\ Rows[i].service_years_4 = 50082

C7_Witness == \E i \in 1..Len(Rows) : C7_Case(Rows[i])

\* C8: under the actual method, and under an unrecognised method alike, a
\* start date on or before the base date gives
\* service_years = (days from start to base + 1) / 365.
C8_ActualDayCount ==
    \A i \in 1..Len(Rows) :
        (calculation_method \in {"ilhal", "unknown"} /\ InService(Rows[i])) =>
            /\ Rows[i].service_years.den = 365
            /\ Rows[i].service_years.num = SpanDays(Rows[i].start_date, base_date) + 1

C8_Witness ==
    \E i \in 1..Len(Rows) :
        /\ calculation_method = "unknown"
        /\ InService(Rows[i])
        /\ Rows[i].start_date.y < base_date.y
        /\ IsLeap(Rows[i].start_date.y)

\* C9: under month_round_up a start date on or before the base date gives
\* (whole calendar months + 1 if a residual day exists) / 12; 2020-01-15 to
\* 2025-02-10 gives 61/12; and round_down <= round_up <= round_down + 1/12.
C9_MonthRoundUp ==
    \A i \in 1..Len(Rows) :
        (calculation_method = "wolsang" /\ InService(Rows[i])) =>
            LET s == Rows[i].start_date
                whole == WholeMonths(s, base_date)
                residual == DateLT(AddMonths(s, whole), base_date)
                up == Rows[i].service_years
                down == ServiceYears(s, base_date, "wolsa")
            IN  /\ up = F(whole + (IF residual THEN 1 ELSE 0), 12)
                /\ down = F(whole, 12)
                /\ FGE(up, down)
                /\ FGE(F(down.num + 1, 12), up)
                /\ (s = Date(2020, 1, 15) /\ base_date = Date(2025, 2, 10))
                      => up = F(61, 12)

C9_Witness ==
    \E i \in 1..Len(Rows) :
        /\ calculation_method = "wolsang"
        /\ Rows[i].start_date = Date(2020, 1, 15)
        /\ base_date = Date(2025, 2, 10)
        /\ Rows[i].service_years = F(61, 12)

\* the multipliers (hundredths) of the rows whose threshold is the greatest
\* one not above service_years
GreatestQualifying(rows, service_years) ==
    LET qual == { i \in 1..Len(rows) : FGE(service_years, F(rows[i].min_years, 1)) }
    IN  { rows[i].multiplier :
            i \in { j \in qual : \A k \in qual : rows[j].min_years >= rows[k].min_years } }

SelectedFrom(rows, service_years, m) ==
    IF GreatestQualifying(rows, service_years) = {}
    THEN m = F(100, 100)
    ELSE \E h \in GreatestQualifying(rows, service_years) : m = F(h, 100)

SameRows(rows, other) ==
    /\ Len(rows) = Len(other)
    /\ { rows[i] : i \in 1..Len(rows) } = { other[i] : i \in 1..Len(other) }

\* C10: under the progressive policy a record whose normalized multiplier is
\* 1.0 gets the multiplier of the greatest threshold <= service_years (1.0 if
\* none qualifies or the table is empty), whatever the order of the rows; a
\* record whose normalized multiplier differs from 1.0 keeps it.  For the
\* table (0,1.0),(5,1.2),(10,1.5): 7 -> 1.2, 10.0 -> 1.5, 4.999 -> 1.0.
C10_ProgressiveSelection ==
    /\ \A i \in 1..Len(Rows) :
         progressive_multipliers.present =>
            LET norm == ExcelMultiplier(df[i].col_multiplier)
            IN  IF FEq(norm, F(100, 100))
                THEN SelectedFrom(progressive_multipliers.rows,
                                  Rows[i].service_years, Rows[i].multiplier)
                ELSE Rows[i].multiplier = norm
    /\ probe.called =>
         /\ SelectedFrom(progressive_multipliers.rows, probe.service_years,
                         probe.multiplier)
         /\ (progressive_multipliers.present
               /\ SameRows(progressive_multipliers.rows, DefaultTable.rows)) =>
               /\ probe.service_years = F(7, 1) => probe.multiplier = F(120, 100)
               /\ probe.service_years = F(10, 1) => probe.multiplier = F(150, 100)
               /\ probe.service_years = F(4999, 1000) => probe.multiplier = F(100, 100)

C10_Witness ==
    /\ result_rows.done
    /\ Len(Rows) = 1
    /\ progressive_multipliers.present
    /\ Len(progressive_multipliers.rows) = 3
    /\ progressive_multipliers.rows[1].min_years < progressive_multipliers.rows[3].min_years
    /\ FEq(ExcelMultiplier(df[1].col_multiplier), F(100, 100))
    /\ Rows[1].multiplier = F(150, 100)

\* the reported estimate of record i, as a number (NaN when it is absent or
\* not numeric)
Reported(i) == ToNumeric(df[i].col_original_estimate, 1)

\* C11: the error rate of every reconciliation row is
\* |computed - reported| / |reported| x 100 when the reported estimate is
\* present and non-zero, and 0 when it is zero, absent or not numeric; it is
\* never NaN.
C11_ErrorRate ==
    result_rows.done =>
        \A i \in 1..Len(Rows) :
            /\ ~FIsNaN(Rows[i].error_rate)
            /\ IF ~FIsNaN(Reported(i)) /\ Reported(i).num # 0
               THEN FEq(FMul(Rows[i].error_rate, FAbs(Reported(i))),
                        FMul(FAbs(FSub(Rows[i].system_estimate, Reported(i))),
                             F(100, 1)))
               ELSE FEq(Rows[i].error_rate, FZero)

\* C12: in every reconciliation row the service years are not negative and
\* the effective rate is max(0, service_years - leave_deduction_years): it
\* is 0 when the leave deduction exceeds the service, never negative, and it
\* is the rate the estimate is computed from.
C12_EffectiveRate ==
    result_rows.done =>
        \A i \in 1..Len(Rows) :
            LET r == Rows[i]
                net == FSub(r.service_years, r.leave_deduction_years)
            IN  /\ FGE(r.service_years, FZero)
                /\ r.service_years_4 >= 0
                /\ FGE(r.final_rate, FZero)
                /\ r.final_rate = (IF net.num > 0 THEN net ELSE FZero)
                /\ r.system_estimate
                     = FMul(FMul(r.base_salary, r.final_rate), r.multiplier)

\* a record of five years of service with ten years of leave: its rate is 0
C12_Witness ==
    /\ result_rows.done
    /\ Len(Rows) = 1
    /\ FGT(Rows[1].service_years, FZero)
    /\ FGT(Rows[1].leave_deduction_years, Rows[1].service_years)
    /\ Rows[1].final_rate = FZero
    /\ FEq(Rows[1].base_salary, F(30, 1))
    /\ FEq(Rows[1].system_estimate, FZero)

\* C15: validate_calculation returns one reconciliation row per record of
\* the register, in the register's order: row i carries the employee ID,
\* the salary and the reported estimate of record i, also for records
\* without dates, salary or employee ID.
C15_OneRowPerRecord ==
    result_rows.done =>
        /\ Len(Rows) = Len(df)
        /\ \A i \in 1..Len(df) :
             /\ Rows[i].emp_id = df[i].col_emp_id
             /\ Rows[i].base_salary = OrZero(ToNumeric(df[i].col_salary, 1))
             /\ Rows[i].original_estimate = OrZero(Reported(i))

\* a register of two different records, one of them without ID, dates and
\* salary
C15_Witness ==
    /\ result_rows.done
    /\ Len(df) = 2
    /\ Len(Rows) = 2
    /\ df[1] = EstRow(None, None, None, None, None)
    /\ ~IsNa(df[2].col_emp_id)
    /\ Rows[2].emp_id = df[2].col_emp_id

\* the rows of the error rates that a test selects
Band(low, high) ==
    {i \in 1..Len(Rows) :
        /\ FGE(Rows[i].error_rate_2, F(low, 1))
        /\ FGT(F(high, 1), Rows[i].error_rate_2)}

\* the rows of an error rate of `low` or more
AtLeast(low) == {i \in 1..Len(Rows) : FGE(Rows[i].error_rate_2, F(low, 1))}

\* C16: the summary of any list of reconciliation rows has total_count =
\* the number of rows, high_deviation_count = the number of rows of an error
\* rate of 5 or more (the 5..<10 band plus the >=10 band, every row lying in
\* exactly one of the three bands), and match_rate = (total_count -
\* high_deviation_count) / total_count x 100, or 0 for an empty list.
C16_Summary ==
    calc_summary.done =>
        /\ ~calc_summary.raised
        /\ calc_summary.total_count = Len(Rows)
        /\ calc_summary.error_count = Cardinality(AtLeast(5))
        /\ calc_summary.error_count
             = Cardinality(Band(5, 10)) + Cardinality(AtLeast(10))
        /\ \A i \in 1..Len(Rows) :
             Cardinality({b \in {Band(0, 5), Band(5, 10), AtLeast(10)} : i \in b}) = 1
        /\ calc_summary.error_count \in 0..calc_summary.total_count
        /\ IF Len(Rows) = 0
           THEN calc_summary.match_rate = FZero
           ELSE /\ FEq(calc_summary.match_rate,
                       F((Len(Rows) - Cardinality(AtLeast(5))) * 100, Len(Rows)))
                /\ FGE(calc_summary.match_rate, FZero)
                /\ FGE(F(100, 1), calc_summary.match_rate)

\* the earlier runs returned what the present run returned, and each other
SameAsBefore ==
    \A i \in 1..Len(history) :
        /\ structured_results.done => history[i].findings = structured_results
        /\ result_rows.done => history[i].rows = result_rows
        /\ \A j \in 1..Len(history) : history[i] = history[j]

IdNormalizers ==
    {"_normalize_employee_id", "_normalize_employee_number",
     "_normalize_employee_number_with_leading_zero"}

\* C13: employee-ID normalization is idempotent: normalizing an already
\* normalized ID (text or number, with '.0' suffixes, blanks or zero padding)
\* returns the same value, for each of the three normalizers.
C13_Idempotent ==
    (call.fn \in IdNormalizers /\ Len(returned) >= 2) =>
        returned[2] = returned[1]

\* the eight digits of a date text name a calendar date
NamesDate(cs) ==
    ValidDate(IntOf(SubSeq(cs, 1, 4)), IntOf(SubSeq(cs, 5, 6)),
              IntOf(SubSeq(cs, 7, 8)))

\* "YYYYMMDD" of what a date normalizer returned
Reencode(fn, out) ==
    IF fn = "_normalize_date_from_number"
    THEN SelectSeq(out.s, LAMBDA c : c # "-")
    ELSE Fmt8(out).s

\* no date: None of either kind
IsNull(fn, out) ==
    IF fn = "_normalize_date_from_number" THEN out = None ELSE out = NoDate

\* C14: the 8-digit text of a valid calendar date of 1900..2100 normalizes
\* to a date whose YYYYMMDD encoding is the text again, and eight digits that
\* name no calendar date normalize to null, for each of the three date
\* normalizers.
C14_DateRoundTrip ==
    (call.fn \in {"DataValidator._parse_date", "EstimateValidator._parse_date",
                  "_normalize_date_from_number"} /\ returned # <<>>
       /\ Len(call.arg[1].s) = 8) =>
        LET text == call.arg[1].s
            out == returned[1][1]
        IN  IF NamesDate(text)
            THEN ~IsNull(call.fn, out) /\ Reencode(call.fn, out) = text
            ELSE IsNull(call.fn, out)

\* the six digits of a YYMMDD cell, text or number
SixDigits(cell) == ReplaceDotZero(Strip(PyStr(cell)))

\* C23: six digits YYMMDD that name a calendar date are expanded with pivot
\* year 50 by each of the three date normalizers: a two-digit year below 50
\* is 20xx, 50 and above is 19xx ('50' is 1950, '49' is 2049), month and day
\* are kept.
C23_PivotYear ==
    (call.fn \in {"DataValidator._parse_date", "EstimateValidator._parse_date",
                  "_normalize_date_from_number"} /\ returned # <<>>
       /\ call.arg[1] \in ShortDateCells) =>
        LET cs == SixDigits(call.arg[1])
            yy == IntOf(SubSeq(cs, 1, 2))
            year == IF yy < 50 THEN 2000 + yy ELSE 1900 + yy
            out == returned[1][1]
        IN  ValidDate(year, IntOf(SubSeq(cs, 3, 4)), IntOf(SubSeq(cs, 5, 6))) =>
              /\ ~IsNull(call.fn, out)
              /\ Reencode(call.fn, out) = ZeroPad(year, 4) \o SubSeq(cs, 3, 6)

\* a cell that writes an employee number: a number, or digits
PlainNumber(cell) ==
    \/ cell.k \in {"int", "num"} /\ cell.n >= 0
    \/ cell.k = "str" /\ cell.s # <<>> /\ IsDigits(cell.s)

\* the ways a register writes the employee number of `cell`: as an integer,
\* as a float, as digits, as digits padded with zeros to four places
SameEmployee(cell) ==
    LET v == IF cell.k = "str" THEN IntOf(cell.s) ELSE cell.n
    IN  {IntCell(v), Num(v), Str(Digits(v)), Str(ZeroPad(v, 4))}

\* C27: the same employee number has the same canonical string in every
\* register and check: written as 123, 123.0 or '0123', it is normalized to
\* one string by the normalizer of the app validator, and to one string by
\* the two normalizers of the DataMapper (Active, Retired and other
\* long-term registers on one side, Supplementary register on the other).
C27_SameCanonicalId ==
    (call.fn \in IdNormalizers /\ Len(returned) = 1 /\ Len(call.arg) = 1
       /\ PlainNumber(call.arg[1])) =>
        \A other \in SameEmployee(call.arg[1]) :
            IF call.fn = "_normalize_employee_id"
            THEN returned[1][1] = NormalizeEmployeeId(other)
            ELSE /\ returned[1][1] = NormalizeEmployeeNumber(<<other>>)[1]
                 /\ returned[1][1] = ConvertEmpId(other)

\* C20: every sheet of the workbook whose name is a variant of a standard
\* register name is the sheet _find_sheet_by_keywords returns for that
\* standard name's keywords.
C20_SheetRecognition ==
    (call.fn = "_find_sheet_by_keywords" /\ returned # <<>>) =>
        \A i \in 1..Len(call.arg) :
            returned[1][StandardOf(call.arg[i])] = i

\* C29: read_all_sheets loads every sheet of the workbook under at most
\* one standard name, whatever sheets the workbook holds and in whatever
\* order: the sheet loaded as the Active register is never the other
\* long-term register, and no sheet is loaded under two standard names.
C29_OneNamePerSheet ==
    (call.fn = "_find_sheet_by_keywords" /\ returned # <<>>) =>
        /\ returned[1][NameActive] # 0 =>
               StandardOf(call.arg[returned[1][NameActive]]) # NameOther
        /\ \A s, t \in StandardNames :
               (s # t /\ returned[1][s] # 0) => returned[1][s] # returned[1][t]

(***************************************************************************)
(* Properties of the rule validators                                       *)
(***************************************************************************)
\* validate returned findings
Validated == structured_results.done /\ ~structured_results.raised

\* the service's phase 1 returned findings
Phase1Done == phase1_results.done /\ ~phase1_results.aborted

\* the sheets of the batch that are the register called `name`
Register(name) == {i \in 1..Len(all_data) : all_data[i].name = name}

\* the batch holds only registers under their standard names
StandardBatch ==
    \A i \in 1..Len(all_data) :
        all_data[i].name \in {NameActive, NameRetired, NameAdditional,
                              NameOther, NameSummary}

\* an employee ID that is present: not null, not blank, not "nan" or "None"
PresentId(id) ==
    /\ ~IsNa(id)
    /\ Strip(PyStr(id)) \notin {<<>>, <<"n", "a", "n">>, <<"N", "o", "n", "e">>}

\* the records of a register that have an employee ID, as <<sheet, row>>
RecordsOf(name) ==
    {x \in Register(name) \X (1..(MaxDupRows + 1)) :
        /\ x[2] <= Len(all_data[x[1]].rows)
        /\ PresentId(all_data[x[1]].rows[x[2]]["emp_id"])}

\* the present IDs of a register, normalised
IdsOf(name) ==
    {NormalizeEmployeeId(all_data[x[1]].rows[x[2]]["emp_id"]) : x \in RecordsOf(name)}

\* the positions of the findings of `category` in a sequence of findings
FindingsOf(findings, category) ==
    {k \in 1..Len(findings) : findings[k].category = category}

\* the positions of the findings of `category` that carry `emp_id`
FindingsAbout(findings, category, emp_id) ==
    {k \in FindingsOf(findings, category) : findings[k].emp_id = emp_id}

\* the findings validate filed under the sheet at position i
RootFindings(i) == structured_results.sheets[i]

\* the errors the service filed under the sheet called `name`
ServiceErrors(name) ==
    SelectSeq(phase1_results.errors, LAMBDA e : e.sheet = name)

\* an ID as a finding of the app validator, or of the service, writes it
Label(app, id) == IF app THEN NormalizeEmployeeId(id) ELSE Str(PyStr(id))

\* C1: validate returns a complete result, one entry per sheet, whatever the
\* records hold: no text, missing or wrongly-typed value makes it raise.
C1_NeverRaises ==
    structured_results.done =>
        /\ ~structured_results.raised
        /\ Len(structured_results.sheets) = Len(all_data)

\* rows of the sheet whose ID is present and equals that of row j
SameId(sheet, j) ==
    {k \in 1..Len(sheet.rows) :
        /\ PresentId(sheet.rows[k]["emp_id"])
        /\ RawEq(sheet.rows[k]["emp_id"], sheet.rows[j]["emp_id"])}

\* the duplicated IDs of a sheet with their occurrence counts
DuplicatedIds(sheet, app) ==
    {<<Label(app, sheet.rows[j]["emp_id"]), Cardinality(SameId(sheet, j))>> :
        j \in {k \in 1..Len(sheet.rows) :
                 /\ PresentId(sheet.rows[k]["emp_id"])
                 /\ Cardinality(SameId(sheet, k)) >= 2}}

\* the findings of `category` are exactly one per pair of `expected`
OnePerPair(findings, category, expected) ==
    /\ Cardinality(FindingsOf(findings, category)) = Cardinality(expected)
    /\ \A pair \in expected :
         Cardinality({k \in FindingsAbout(findings, category, pair[1]) :
                        findings[k].n = pair[2]}) = 1

\* C2: the IDs reported as duplicates within the Active register are exactly
\* the IDs that two or more of its records with a present ID share, one
\* finding per such ID, stating how often it occurs.
C2_DuplicateSet ==
    \A i \in Register(NameActive) :
        /\ Validated =>
             OnePerPair(RootFindings(i), "dup_id", DuplicatedIds(all_data[i], TRUE))
        /\ Phase1Done =>
             OnePerPair(ServiceErrors(NameActive), "duplicate_emp_id",
                        DuplicatedIds(all_data[i], FALSE))

\* one finding of `category` about each ID of `ids`, and about no other ID
OnePerId(findings, category, ids) ==
    /\ \A id \in ids : Cardinality(FindingsAbout(findings, category, id)) = 1
    /\ \A k \in FindingsOf(findings, category) : findings[k].emp_id \in ids

\* C3: an ID present in both the Active and the Retired register gets exactly
\* one cross-register-duplicate finding against the Active sheet and one
\* against the Retired sheet; an ID in only one of them gets none.
C3_CrossDuplicate ==
    (StandardBatch /\ Register(NameActive) # {} /\ Register(NameRetired) # {}) =>
        LET both == IdsOf(NameActive) \cap IdsOf(NameRetired)
        IN  /\ Validated =>
                 \A i \in Register(NameActive) \cup Register(NameRetired) :
                     OnePerId(RootFindings(i), "cross_dup", both)
            /\ Phase1Done =>
                 /\ OnePerId(ServiceErrors(NameActive), "duplicate_across_sheets", both)
                 /\ OnePerId(ServiceErrors(NameRetired), "duplicate_across_sheets", both)

\* a required field the record does not have: its column is not supplied,
\* or its value is null or blank
Absent(sheet, row, field) == field \notin sheet.cols \/ IsBlank(row[field])

\* every record of the sheet with a present ID has one finding of
\* `category` per absent required field and none for a field it has, the
\* record's findings being those that carry its ID
OnePerAbsentField(sheet, findings, category, app) ==
    \A j \in 1..Len(sheet.rows) :
        PresentId(sheet.rows[j]["emp_id"]) =>
            \A f \in 1..Len(ActiveRequired) :
                Cardinality({k \in FindingsAbout(findings, category,
                                                 Label(app, sheet.rows[j]["emp_id"])) :
                               findings[k].detail = ActiveRequired[f]})
                = Cardinality({r \in 1..Len(sheet.rows) :
                     /\ Label(app, sheet.rows[r]["emp_id"])
                          = Label(app, sheet.rows[j]["emp_id"])
                     /\ Absent(sheet, sheet.rows[r], ActiveRequired[f])})

\* C4: an Active record with a present employee ID gets one required-field
\* finding per required field it lacks and none for a field it has, whether
\* the field is null or its column is not supplied at all.
C4_RequiredFields ==
    \A i \in Register(NameActive) :
        /\ Validated =>
             OnePerAbsentField(all_data[i], RootFindings(i), "required", TRUE)
        /\ Phase1Done =>
             OnePerAbsentField(all_data[i], ServiceErrors(NameActive),
                               "required_field_missing", FALSE)

\* the rule of the Supplementary register for a row with this ID and reason
MustFlag(id, reason) ==
    \/ reason \in {1, 5} /\ id \notin IdsOf(NameActive)
    \/ reason = 2 /\ id \in IdsOf(NameRetired)

\* C5: with the Active and Retired registers in the batch, a Supplementary
\* row with a present ID and a reason code 1..5 gets a cross-register
\* inconsistency finding exactly when its reason is 1 or 5 and the ID is not
\* in the Active register, or its reason is 2 and the ID is in the Retired
\* register; reasons 3 and 4 never get one.
C5_SupplementaryRule ==
    (StandardBatch /\ Register(NameActive) # {} /\ Register(NameRetired) # {}) =>
        \A i \in Register(NameAdditional) :
          \A j \in 1..Len(all_data[i].rows) :
            LET id == all_data[i].rows[j]["emp_id"]
                reason == all_data[i].rows[j]["reason"]
                errors == ServiceErrors(NameAdditional)
            IN  (PresentId(id) /\ reason.k = "int" /\ reason.n \in 1..5) =>
                  /\ Validated =>
                       (FindingsAbout(RootFindings(i), "cross_mismatch",
                                      Label(TRUE, id)) # {}
                        <=> MustFlag(NormalizeEmployeeId(id), reason.n))
                  /\ Phase1Done =>
                       (FindingsAbout(errors, "additional_not_in_active",
                                      Label(FALSE, id))
                          \cup FindingsAbout(errors, "additional_duplicate_retired",
                                             Label(FALSE, id)) # {}
                        <=> MustFlag(NormalizeEmployeeId(id), reason.n))

\* the sum of the current-year estimates of the Active register
EstimateTotal ==
    SumOver([i \in 1..Len(all_data) |->
                IF all_data[i].name = NameActive
                THEN SumNumeric(all_data[i].rows, "current_year_severance", 1)
                ELSE 0], 1)

\* the aggregate mismatches, each about the whole batch, in a summary
\* sheet's findings
Mismatches(findings) ==
    {findings[k].detail : k \in FindingsAbout(findings, "sum_mismatch", Whole)}

\* C6: the plan summary gets an aggregate-mismatch finding exactly when a
\* reported headcount differs from the number of records with an employee ID
\* in the Active (resp. Retired) register, or the reported total differs from
\* the sum of the Active register's current-year estimates by more than 1;
\* the order and number of the sheets of the batch do not change that.
C6_Reconciliation ==
    Validated =>
        \A i \in Register(NameSummary) :
            LET summary == all_data[i].rows[1]
                found == Mismatches(RootFindings(i))
                reversed == RootValidateResult(Reverse(all_data), base_date)
            IN  /\ StandardBatch =>
                    /\ summary["active_count"].k = "int" =>
                         ("active_count" \in found
                            <=> summary["active_count"].n
                                  # Cardinality(RecordsOf(NameActive)))
                    /\ summary["retired_count"].k = "int" =>
                         ("retired_count" \in found
                            <=> summary["retired_count"].n
                                  # Cardinality(RecordsOf(NameRetired)))
                    /\ summary["estimate_sum"].k = "int" =>
                         ("estimate_sum" \in found
                            <=> Abs(summary["estimate_sum"].n - EstimateTotal) > 1)
                /\ found = Mismatches(reversed.sheets[Len(all_data) + 1 - i])

\* the records of the batch that have an employee ID, as <<sheet, row>>
PresentRecords ==
    {x \in (1..Len(all_data)) \X (1..(MaxDupRows + 1)) :
        /\ x[2] <= Len(all_data[x[1]].rows)
        /\ PresentId(all_data[x[1]].rows[x[2]]["emp_id"])}

\* the IDs of the records that have one, as a finding would carry them
PresentLabels(app) ==
    {Label(app, all_data[x[1]].rows[x[2]]["emp_id"]) : x \in PresentRecords}

\* the findings of the app validator carry IDs of records that have one,
\* and so do the ID sets its duplicate and cross-register checks use
AppIgnoresNoId ==
    /\ \A i \in 1..Len(all_data) :
          ~RootIsSummary(all_data[i].name) =>
              \A k \in 1..Len(RootFindings(i)) :
                  RootFindings(i)[k].emp_id \in PresentLabels(TRUE)
    /\ RootCollectIds(all_data, TRUE) \subseteq PresentLabels(TRUE)
    /\ RootCollectIds(all_data, FALSE) \subseteq PresentLabels(TRUE)
    /\ \A i \in Register(NameSummary) :
          (StandardBatch /\ all_data[i].rows[1]["active_count"].k = "int") =>
              ("active_count" \in Mismatches(RootFindings(i))
                 <=> all_data[i].rows[1]["active_count"].n
                       # Cardinality(RecordsOf(NameActive)))

\* the errors and warnings of the service carry IDs of records that have
\* one, its record totals count those records only, and so do its ID sets
ServiceIgnoresNoId ==
    LET sheets == MappedData(all_data)
    IN  /\ \A k \in 1..Len(phase1_results.errors) :
              phase1_results.errors[k].emp_id \in PresentLabels(FALSE)
        /\ \A k \in 1..Len(phase1_results.warnings) :
              phase1_results.warnings[k].emp_id \in PresentLabels(FALSE)
        /\ \A s \in 1..Len(sheets) :
              phase1_results.sheet_results[s].total_records
                = Cardinality({j \in 1..Len(sheets[s].rows) :
                                 PresentId(sheets[s].rows[j]["emp_id"])})
        /\ \A active \in BOOLEAN :
              {Str(PyStr(id)) : id \in BackendCollectIds(sheets, active)}
                \subseteq PresentLabels(FALSE)

\* C18: a record whose employee ID is absent (null, blank, or the texts
\* 'nan' / 'None') has no ID: no finding of either validator is about it,
\* no record total or headcount counts it, and its ID value is in none of
\* the Active and Retired ID sets of the duplicate and cross-register checks.
C18_NoIdRecord ==
    /\ Validated => AppIgnoresNoId
    /\ Phase1Done => ServiceIgnoresNoId

\* the batch holds no Active register
NoActive ==
    \A i \in 1..Len(all_data) : all_data[i].name \notin {NameActive, NameActiveCopy}

\* the batch holds no Retired register
NoRetired == Register(NameRetired) = {}

\* every finding of both validators, whichever sheet it is filed under,
\* as <<category, detail or reason code>>
CrossFindings ==
    (IF Validated
     THEN UNION {{<<RootFindings(i)[k].category, RootFindings(i)[k].detail>> :
                    k \in 1..Len(RootFindings(i))} : i \in 1..Len(all_data)}
     ELSE {})
    \cup
    (IF Phase1Done
     THEN {<<phase1_results.errors[k].category, phase1_results.errors[k].n>> :
             k \in 1..Len(phase1_results.errors)}
     ELSE {})

\* no Active-and-Retired duplicate finding
CrossDupSkipped ==
    \A f \in CrossFindings : f[1] \notin {"cross_dup", "duplicate_across_sheets"}

\* no Supplementary row of reason 1 or 5 is flagged as not in Active
NotInActiveSkipped ==
    \A f \in CrossFindings :
        /\ f[1] # "additional_not_in_active"
        /\ f[1] = "cross_mismatch" => f[2] \notin {"reason_1", "reason_5"}

\* no Supplementary row of reason 2 is flagged as also in Retired
InRetiredSkipped ==
    \A f \in CrossFindings :
        /\ f[1] # "additional_duplicate_retired"
        /\ f[1] = "cross_mismatch" => f[2] # "reason_2"

\* a validation that raises does so on one of the sheets taken alone
RaisesOnOneSheet ==
    /\ (structured_results.done /\ structured_results.raised) =>
          \E i \in 1..Len(all_data) :
              RootValidateResult(<<all_data[i]>>, base_date).raised
    /\ (phase1_results.done /\ phase1_results.aborted) =>
          \E i \in 1..Len(all_data) :
              ValidatePhase1Rules(MappedData(<<all_data[i]>>)).aborted

\* C19: when the Active or the Retired register is not in the batch, the
\* cross-register checks that need it are skipped: validation raises nothing
\* on that account and files no finding derived from the missing register;
\* without Active register no Supplementary row of reason 1 (transfer-in)
\* or 5 (long-term employee) is flagged as not in Active.
C19_AbsentRegister ==
    /\ (NoActive \/ NoRetired) => (RaisesOnOneSheet /\ CrossDupSkipped)
    /\ NoActive => NotInActiveSkipped
    /\ NoRetired => InRetiredSkipped

(***************************************************************************)
(* Further properties of the estimate                                      *)
(***************************************************************************)
\* the start date of the record at position i of the register: the interim
\* settlement date when the cell holds one, the hire date otherwise
EffectiveStart(i) ==
    IF ~IsNa(df[i].col_interim_date) THEN EstParseDate(df[i].col_interim_date)
    ELSE EstParseDate(df[i].col_join_date)

\* C21, as stated: the start date is the interim settlement date when one
\* is present and the hire date otherwise, and service_years is 0 exactly
\* when that date is absent or later than base_date.
C21_AsStated ==
    \A i \in 1..Len(Rows) :
        /\ Rows[i].start_date = EffectiveStart(i)
        /\ Rows[i].service_years.num = 0 <=> ~InService(Rows[i])

\* C21, amended: the start date is the interim settlement date when one is
\* present and the hire date otherwise; service_years is 0 whenever that
\* date is absent or later than base_date; for a start on or before
\* base_date it is positive under the actual method (1/365 for a start on
\* base_date itself), 0 under month round-up only for a start on base_date,
\* and 0 under month round-down exactly when no whole month has passed.
C21_EffectiveStart ==
    \A i \in 1..Len(Rows) :
        LET r == Rows[i]
        IN  /\ r.start_date = EffectiveStart(i)
            /\ ~InService(r) => r.service_years.num = 0
            /\ InService(r) =>
                 (r.service_years.num = 0
                    <=> \/ calculation_method = "wolsang" /\ r.start_date = base_date
                        \/ calculation_method = "wolsa"
                             /\ WholeMonths(r.start_date, base_date) = 0)
            /\ (InService(r) /\ r.start_date = base_date
                  /\ calculation_method \notin {"wolsang", "wolsa"}) =>
                 FEq(r.service_years, F(1, 365))

C21_Witness ==
    /\ calculation_method = "ilhal"
    /\ \E i \in 1..Len(Rows) :
          /\ ~IsNa(df[i].col_interim_date)
          /\ ~IsNa(df[i].col_join_date)
          /\ Rows[i].start_date = base_date
          /\ EstParseDate(df[i].col_join_date) # base_date

\* the normalized multiplier of a raw cell: 1.0 for an absent, non-numeric
\* or zero value, a hundredth of a value of magnitude 10 or more, the value
\* itself otherwise
Normalized(raw) ==
    LET x == ToNumeric(raw, 100)
    IN  IF FIsNaN(x) \/ x.num = 0 THEN F(100, 100)
        ELSE IF FGE(FAbs(x), F(10, 1)) THEN FDiv(x, F(100, 1))
        ELSE x

\* C22: the record's multiplier is normalized (absent, non-numeric or zero
\* gives 1.0; a magnitude of 10 or more, positive or negative, is divided by
\* 100; any other value is kept), and under the flat policy the applied
\* multiplier is that normalized value.
C22_MultiplierNormalization ==
    ~progressive_multipliers.present =>
        \A i \in 1..Len(Rows) :
            FEq(Rows[i].multiplier, Normalized(df[i].col_multiplier))

(***************************************************************************)
(* Further properties of the rule validators                               *)
(***************************************************************************)
\* the calendar date an ISO text cell holds, NoDate for an absent cell
IsoDate(cell) == IF IsNa(cell) THEN NoDate ELSE StrptimeIso(cell.s)

\* the Active records whose birth and hire cells are absent or ISO dates,
\* as <<sheet, row>>
DatedRecords ==
    {x \in RecordsOf(NameActive) :
        \A f \in {"birth_date", "hire_date"} :
            LET cell == all_data[x[1]].rows[x[2]][f]
            IN  IsNa(cell) \/ (cell.k = "str" /\ HasDate(StrptimeIso(cell.s)))}

\* the age at hire of the record is out of [17, 70], in calendar years
AgeOutOfRange(x) ==
    LET birth == IsoDate(all_data[x[1]].rows[x[2]]["birth_date"])
        hire == IsoDate(all_data[x[1]].rows[x[2]]["hire_date"])
    IN  /\ HasDate(birth) /\ HasDate(hire)
        /\ (hire.y - birth.y < 17 \/ hire.y - birth.y > 70)

\* C24: an Active record gets an age-at-hire finding exactly when both its
\* birth date and its hire date are present and hire year minus birth year
\* is below 17 or above 70 (17 and 70 are accepted, the age is a difference
\* of calendar years, not of days); a record without either date gets none.
C24_AgeAtHire ==
    (StandardBatch /\ Cardinality(Register(NameActive)) = 1) =>
        \A x \in DatedRecords :
            LET id == all_data[x[1]].rows[x[2]]["emp_id"]
            IN  /\ Validated =>
                     (FindingsAbout(RootFindings(x[1]), "age", Label(TRUE, id)) # {}
                        <=> AgeOutOfRange(x))
                /\ Phase1Done =>
                     (FindingsAbout(ServiceErrors(NameActive), "invalid_age",
                                    Label(FALSE, id)) # {}
                        <=> AgeOutOfRange(x))

\* the rows of the sheet at position i whose ID a finding would carry as
\* emp_id
RowsCarrying(i, emp_id) ==
    {j \in 1..Len(all_data[i].rows) :
        NormalizeEmployeeId(all_data[i].rows[j]["emp_id"]) = emp_id}

\* the position in its register of the first record a finding is about,
\* 0 for a finding about no record of the sheet
FirstRow(i, emp_id) ==
    IF RowsCarrying(i, emp_id) = {} THEN 0
    ELSE CHOOSE j \in RowsCarrying(i, emp_id) :
            \A r \in RowsCarrying(i, emp_id) : j <= r

\* the findings of `category` under the sheet at position i follow the
\* order of their records
InRecordOrder(i, category) ==
    \A k, l \in FindingsOf(RootFindings(i), category) :
        k < l => FirstRow(i, RootFindings(i)[k].emp_id)
                   <= FirstRow(i, RootFindings(i)[l].emp_id)

\* no two records of the sheet at position i carry the same ID
DistinctIds(i) ==
    \A j \in 1..Len(all_data[i].rows) :
        Cardinality(RowsCarrying(i, NormalizeEmployeeId(all_data[i].rows[j]["emp_id"]))) = 1

\* the categories validate files under an employee register
RecordCategories ==
    UNION {{RootFindings(i)[k].category : k \in 1..Len(RootFindings(i))} :
             i \in {s \in 1..Len(all_data) : ~RootIsSummary(all_data[s].name)}}

\* C25: in the result of validate, within every sheet and category the
\* findings come in the order in which their records stand in the register:
\* a finding about an earlier record never follows one about a later record,
\* the duplicate and cross-register-duplicate categories included.
C25_EncounterOrder ==
    Validated =>
        \A i \in 1..Len(all_data) :
            ~RootIsSummary(all_data[i].name) =>
                \A category \in RecordCategories :
                    (category \in {"dup_id", "cross_dup"} \/ DistinctIds(i)) =>
                        InRecordOrder(i, category)

\* the per-record findings about `emp_id` in the findings of a sheet: those
\* of every category but the duplicate and cross-register ones
PerRecord(findings, emp_id) ==
    SelectSeq(findings, LAMBDA f : /\ f.emp_id = emp_id
                                   /\ f.category \notin {"dup_id", "cross_dup"})

\* validate on a register that holds the record at row j of sheet i alone
Alone(i, j) ==
    RootValidateResult(<<Sheet(all_data[i].name, all_data[i].cols,
                               <<all_data[i].rows[j]>>)>>, base_date)

\* C26: the per-record findings of an Active record depend on that record
\* and the configuration only: they are the findings the record gets when
\* it is validated alone, whatever the other records of the register hold
\* and wherever the record stands.
C26_RecordIndependence ==
    Validated =>
        \A i \in Register(NameActive) :
            DistinctIds(i) =>
                \A j \in 1..Len(all_data[i].rows) :
                    LET emp_id == NormalizeEmployeeId(all_data[i].rows[j]["emp_id"])
                    IN  /\ ~Alone(i, j).raised
                        /\ PerRecord(RootFindings(i), emp_id)
                             = PerRecord(Alone(i, j).sheets[1], emp_id)

\* C28: in the phase-1 result of the service, valid_records plus
\* invalid_records of a validated Active sheet is its total_records, so
\* that invalid_records never exceeds the number of records, duplicate
\* findings included; and the totals of the batch are the sums of the
\* values of its sheets.
C28_RecordCounts ==
    Phase1Done =>
        LET sheets == MappedData(all_data)
            results == phase1_results.sheet_results
        IN  /\ \A s \in 1..Len(sheets) :
                  BackendIsActive(sheets[s].name) =>
                      /\ results[s].valid_records + results[s].invalid_records
                           = results[s].total_records
                      /\ results[s].invalid_records <= Len(sheets[s].rows)
            /\ phase1_results.total_records
                 = SumOver([s \in 1..Len(sheets) |-> results[s].total_records], 1)
            /\ phase1_results.valid_records
                 = SumOver([s \in 1..Len(sheets) |-> results[s].valid_records], 1)
            /\ phase1_results.invalid_records
                 = SumOver([s \in 1..Len(sheets) |-> results[s].invalid_records], 1)

(***************************************************************************)
(* Properties of the session of the app                                    *)
(***************************************************************************)
\* the page shows and exports results: a file with a matched sheet is in
\* the uploader
ResultsShown == uploaded_file # NoFile /\ uploaded_file.data # <<>>

\* a flag that is set has its cached results
FlagsHaveResults ==
    /\ session_state.validation_done => session_state.validation_results # <<>>
    /\ session_state.calc_done =>
           /\ session_state.calc_results_df # <<>>
           /\ session_state.calc_summary # <<>>

\* every cached result is the one the uploaded file gives
ResultsOfCurrentFile ==
    ResultsShown =>
        /\ session_state.validation_results # <<>> =>
               session_state.validation_results[1]
                 = RootValidateResult(uploaded_file.data, base_date)
        /\ session_state.calc_results_df # <<>> =>
               \E order \in SortedTables(NoTable.rows) :
                   session_state.calc_results_df[1]
                     = CalcResultsDf(ActiveFrame(uploaded_file.data), order)
        /\ session_state.calc_summary # <<>> =>
               \E order \in SortedTables(NoTable.rows) :
                   session_state.calc_summary[1]
                     = GetSummaryOf(CalcResultsDf(ActiveFrame(uploaded_file.data),
                                                 order))
        /\ session_state.ai_analysis_result # <<>> =>
               session_state.ai_analysis_result[1].processed_data
                 = uploaded_file.data

\* C30: after any sequence of uploads and presses of the two buttons the
\* cache of the session is consistent: validation_done implies that
\* validation_results is there, calc_done that calc_results_df and
\* calc_summary are there, and every cached result was computed from the
\* file now in the uploader (another file clears flags and results before
\* anything is shown or exported).
C30_SessionCache == FlagsHaveResults /\ ResultsOfCurrentFile
====
